---- MODULE Spec2Model ----
(***************************************************************************)
(* A model of the LARPChecker job-orchestration core: the durable Queue    *)
(* (QueueService over the analysisQueue table), the PipelineManager runs   *)
(* that write to it, the StatusManager's retry policy, the CacheService    *)
(* and the AnalysisOrchestrator's fallback path.                           *)
(*                                                                         *)
(* Every handler is split at its awaits on the store: between two awaits   *)
(* of one handler any other handler's step may run (single-threaded,       *)
(* cooperative scheduling).                                                *)
(***************************************************************************)
EXTENDS Integers, Sequences, FiniteSets, TLC

\* ------------------------------------------------------------------ bounds
MaxRows == 2        \* rows ever created in the analysisQueue table
MaxTime == 1        \* the clock runs 0..MaxTime
MaxPriority == 2    \* priorities a caller may ask for: 1..MaxPriority
maxConcurrent == 1  \* QueueService config.maxConcurrent (constructor argument)
MaxCacheTime == 3   \* the clock runs 0..MaxCacheTime where cache entries expire
MaxTtl == 2         \* ttl arguments of CacheService.set: 1..MaxTtl
MaxErrors == 5      \* errors handed to handleError per subject and counter reset
maxWorkers == 2     \* WorkerPool constructor argument maxWorkers
MaxTasks == 4       \* tasks ever submitted to the worker pool
MaxTaskPriority == 2 \* priorities of addTask: 1..MaxTaskPriority
MaxCallbacks == 2   \* onMention registrations
MaxInvocations == 2 \* invocations counted per tweet and callback
MaxAttempt == 6     \* attempt numbers calculateBackoff is applied to
MaxSubscribers == 2 \* callbacks subscribed to one notification type
MaxSends == 5       \* failed sendTweetV2 calls followed within one tweet() call

\* ------------------------------------------------------- program constants
defaultPriority == 2
ProgressTtl == 3600
AnalysisTtl == 86400000

Urls == {"A", "B"}
Dequeuers == {"d1", "d2"}   \* dequeue() calls that may be in flight together
Runs == {"r1", "r2"}        \* executePipeline() calls that may be in flight together
RowIds == 1..MaxRows
NoRow == [status |-> "none"]
None == 0

QueueStatus == {"PENDING", "PROCESSING", "COMPLETED", "FAILED", "CANCELLED"}
AnalysisStatus == {"PENDING", "QUEUED", "IN_PROGRESS", "COMPLETED", "FAILED", "CANCELLED"}
AnalysisMethod == {"quick", "deep", "fallback"}
TerminalQueueStatus == {"COMPLETED", "FAILED", "CANCELLED"}

VARIABLES
  now,              \* the wall clock (new Date(), the store's now())
  rows,             \* the analysisQueue table: row id -> row, NoRow when absent
  nextId,           \* the next row id the store hands out
  requested,        \* row id -> the priority its enqueue call was given
  finished,         \* history: the rows that have been Completed or Cancelled
  processingItems,  \* QueueService.processingItems: Set<repositoryUrl>
  dq,               \* dequeuer -> the position of its dequeue() call
  pl,               \* run -> the position of its executePipeline() call
  cache,            \* CacheService.cache: key -> CacheEntry, NoEntry when absent
  written,          \* history: key -> the last set() not yet written over
  lastGet,          \* the latest CacheService.get call and what it returned
  progressMap,      \* StatusManager.progressMap: url -> IAnalysisProgress
  retryAttempts,    \* StatusManager.retryAttempts: url -> count (0 when absent)
  handled,          \* history: url -> errors handled since its counter was reset
  classesSeen,      \* history: url -> the retry class that governed those errors
  handleResult,     \* url -> what its latest handleError call returned
  orch,             \* AnalysisOrchestrator: one request's progress record and run
  rt,               \* AnalysisRouter: the position of one routeAnalysis() call
  rm,               \* ResourceManager: the latest checkResources/validateResources call
  mn,               \* LARPCheckApp: the position of one handleMention() call
  preferred,        \* AnalysisRouter: the latest getPreferredMethod call
  workers,          \* WorkerPool.workers: worker -> [status, currentTask]
  pending,          \* WorkerPool.queue: the waiting tasks, in list order
  isShuttingDown,   \* WorkerPool.isShuttingDown
  tasks,            \* task id -> its priority, its processQueue run and its future
  nextTask,         \* the id of the next task addTask admits
  lastAdd,          \* what the latest addTask call did
  notifications,    \* NotificationService.notifications, as the set of what was pushed
  tw,               \* TwitterService: callbacks, processedMentions, timers, calls in flight
  lastError,        \* history: url -> the error of the latest handleError call
  bk,               \* StatusManager: one subject's retries of rate-limit errors and their waits
  ns,               \* NotificationService: subscribers and the latest notify call
  qf,               \* QueueService: the latest call whose store access threw
  tc                \* TwitterService: the tweet() call and rateLimitDelay

queueVars == <<rows, nextId, requested, finished, processingItems, dq, pl>>
cacheVars == <<cache, written, lastGet>>
statusVars == <<progressMap, retryAttempts, handled, classesSeen, handleResult>>
orchVars == <<orch, rt>>
rmVars == <<rm>>
poolVars == <<workers, pending, isShuttingDown, tasks, nextTask, lastAdd>>
sideVars == <<mn, preferred, poolVars, notifications, tw, lastError, bk, ns, qf, tc>>
vars == <<now, queueVars, cacheVars, statusVars, orchVars, rmVars, sideVars>>

\* --------------------------------------------------------- CacheService
\* Cache keys, as <<namespace, url, purpose>>:
\*   `repo:${url}:analysis`  = <<"repo", url, "analysis">>
\*   `repo:${url}:progress`  = <<"repo", url, "progress">>
\*   `progress:${url}`       = <<"progress", url, "">>
AnalysisKey(url) == <<"repo", url, "analysis">>
RepoProgressKey(url) == <<"repo", url, "progress">>
ProgressKey(url) == <<"progress", url, "">>
CacheKeys == UNION {{AnalysisKey(u), RepoProgressKey(u), ProgressKey(u)} : u \in Urls}
NoEntry == [ttl |-> -1]
Null == "null"

IsExpiredAtOrAfter(entry) == now >= entry.timestamp + entry.ttl

\* CacheService.isExpired
IsExpired(entry) == now > entry.timestamp + entry.ttl

\* CacheService.set: the map after set(key, value, ttl)
CacheSet(c, key, value, ttl) ==
  [c EXCEPT ![key] = [data |-> value, timestamp |-> now, ttl |-> ttl]]

\* CacheService.get: the value returned
CacheGetValue(key) ==
  IF cache[key] = NoEntry \/ IsExpired(cache[key]) THEN Null ELSE cache[key].data

\* CacheService.get: the map after the call (an expired entry is deleted)
CacheAfterGet(key) ==
  IF cache[key] # NoEntry /\ IsExpired(cache[key])
    THEN [cache EXCEPT ![key] = NoEntry]
    ELSE cache

\* CacheService.invalidateAll: every key with the prefix `repo:${url}:`
CacheInvalidateAll(c, url) ==
  [k \in CacheKeys |-> IF k[1] = "repo" /\ k[2] = url THEN NoEntry ELSE c[k]]

\* CacheService.invalidateProgress: deletes `repo:${url}:progress`
CacheInvalidateProgress(c, url) == [c EXCEPT ![RepoProgressKey(url)] = NoEntry]

\* CacheService.cacheProgress: set(`progress:${url}`, progress, 3600)
CacheProgress(c, url, progress) == CacheSet(c, ProgressKey(url), progress, ProgressTtl)

\* history: the writes that remain after the given keys were written over
Forget(keys) == [k \in CacheKeys |-> IF k \in keys THEN NoEntry ELSE written[k]]
Remember(w, key, value, ttl) ==
  [w EXCEPT ![key] = [data |-> value, timestamp |-> now, ttl |-> ttl]]

Set(key, value, ttl) ==
  /\ cache' = CacheSet(cache, key, value, ttl)
  /\ written' = Remember(written, key, value, ttl)
  /\ UNCHANGED <<now, sideVars, orchVars, rmVars, lastGet, queueVars, statusVars>>

Get(key) ==
  /\ lastGet' = [key |-> key, at |-> now, result |-> CacheGetValue(key), set |-> written[key]]
  /\ cache' = CacheAfterGet(key)
  /\ UNCHANGED <<now, sideVars, orchVars, rmVars, written, queueVars, statusVars>>

Delete(key) ==
  /\ cache[key] # NoEntry
  /\ cache' = [cache EXCEPT ![key] = NoEntry]
  /\ written' = Forget({key})
  /\ UNCHANGED <<now, sideVars, orchVars, rmVars, lastGet, queueVars, statusVars>>

InvalidateAll(url) ==
  /\ cache' = CacheInvalidateAll(cache, url)
  /\ cache' # cache
  /\ written' = Forget({k \in CacheKeys : k[1] = "repo" /\ k[2] = url})
  /\ UNCHANGED <<now, sideVars, orchVars, rmVars, lastGet, queueVars, statusVars>>

\* The periodic CacheService.cleanup: expired entries are dropped.
CacheCleanup ==
  /\ cache' = [k \in CacheKeys |->
                 IF cache[k] # NoEntry /\ IsExpired(cache[k]) THEN NoEntry ELSE cache[k]]
  /\ cache' # cache
  /\ UNCHANGED <<now, sideVars, orchVars, rmVars, written, lastGet, queueVars, statusVars>>

\* NotificationService.notify: the history with one more notification
Notified(history, type, url) == history \cup {[type |-> type, repositoryUrl |-> url]}

\* ---------------------------------------------------------------- Queue
mapAnalysisStatusToQueueStatus(status) ==
  CASE status = "QUEUED" -> "PENDING"
    [] status = "IN_PROGRESS" -> "PROCESSING"
    [] status = "COMPLETED" -> "COMPLETED"
    [] status = "FAILED" -> "FAILED"
    [] status = "CANCELLED" -> "CANCELLED"
    [] OTHER -> "throw"

Present == {i \in RowIds : rows[i] # NoRow}
PendingRows == {i \in Present : rows[i].status = "PENDING"}
ProcessingRows == {i \in Present : rows[i].status = "PROCESSING"}

\* prisma.analysisQueue.create of enqueue(): the row's priority is the
\* configured default whatever the caller asked for.
EnqueuedRow(url, priority) ==
  [url |-> url, status |-> "PENDING", priority |-> defaultPriority, createdAt |-> now]

StoreCreate(url, priority) ==
  /\ nextId <= MaxRows
  /\ rows' = [rows EXCEPT ![nextId] = EnqueuedRow(url, priority)]
  /\ requested' = [requested EXCEPT ![nextId] = priority]
  /\ nextId' = nextId + 1

\* prisma.analysisQueue.updateMany({where: {repositoryUrl}, data: {status}})
StoreUpdateMany(url, queueStatus) ==
  [i \in RowIds |->
     IF rows[i] # NoRow /\ rows[i].url = url
       THEN [rows[i] EXCEPT !.status = queueStatus]
       ELSE rows[i]]

\* prisma.analysisQueue.deleteMany({where: {repositoryUrl}})
StoreDeleteMany(url) ==
  [i \in RowIds |-> IF rows[i] # NoRow /\ rows[i].url = url THEN NoRow ELSE rows[i]]

\* The rows findFirst may return for where status = PENDING,
\* orderBy priority desc, createdAt asc (equal keys: any of them).
FindFirstPending ==
  {i \in PendingRows :
     \A j \in PendingRows :
        \/ rows[j].priority < rows[i].priority
        \/ rows[j].priority = rows[i].priority /\ rows[j].createdAt >= rows[i].createdAt}

\* QueueService.getPosition(url): the values it may return. findFirst picks
\* any Pending row of the url; the count is of the Pending rows ahead of it.
GetPosition(url) ==
  LET mine == {i \in PendingRows : rows[i].url = url}
      ahead(i) == {j \in PendingRows :
                     \/ rows[j].priority > rows[i].priority
                     \/ rows[j].priority = rows[i].priority
                          /\ rows[j].createdAt < rows[i].createdAt}
  IN IF mine = {} THEN {-1} ELSE {Cardinality(ahead(i)) + 1 : i \in mine}

\* QueueService.updateStatus as one call: the store write and the release of
\* the processing slot for a terminal status.
UpdateStatusEffect(url, status) ==
  LET queueStatus == mapAnalysisStatusToQueueStatus(status) IN
  IF queueStatus = "throw"
    THEN UNCHANGED <<rows, processingItems, finished>>
    ELSE /\ rows' = StoreUpdateMany(url, queueStatus)
         /\ finished' = IF queueStatus \in {"COMPLETED", "CANCELLED"}
                          THEN finished \cup {i \in Present : rows[i].url = url}
                          ELSE finished
         /\ processingItems' = IF queueStatus \in TerminalQueueStatus
                                 THEN processingItems \ {url}
                                 ELSE processingItems

RemoveFromQueueEffect(url) ==
  /\ rows' = StoreDeleteMany(url)
  /\ finished' = finished
  /\ processingItems' = processingItems \ {url}

\* A dequeue() call that is not in flight.
IdleCall == [pc |-> "idle", sel |-> None, url |-> ""]

Enqueue(url, priority) ==
  /\ StoreCreate(url, priority)
  /\ UNCHANGED <<now, sideVars, orchVars, rmVars, finished, processingItems, dq, pl>>
  /\ UNCHANGED <<cacheVars, statusVars>>

\* dequeue(), first part: the capacity check, made when the call starts.
\* A call that finds the queue at capacity returns null at once.
DequeueCheck(d) ==
  /\ dq[d].pc = "idle"
  /\ IF Cardinality(processingItems) >= maxConcurrent
       THEN dq' = [dq EXCEPT ![d] = IdleCall]
       ELSE dq' = [dq EXCEPT ![d] = [IdleCall EXCEPT !.pc = "find"]]
  /\ UNCHANGED <<now, sideVars, orchVars, rmVars, rows, nextId, requested, finished, processingItems, pl>>
  /\ UNCHANGED <<cacheVars, statusVars>>

\* dequeue(), the findFirst read; no Pending row: the call returns null.
DequeueFind(d) ==
  /\ dq[d].pc = "find"
  /\ IF FindFirstPending = {}
       THEN dq' = [dq EXCEPT ![d] = IdleCall]
       ELSE \E i \in FindFirstPending :
              dq' = [dq EXCEPT ![d] = [pc |-> "update", sel |-> i, url |-> rows[i].url]]
  /\ UNCHANGED <<now, sideVars, orchVars, rmVars, rows, nextId, requested, finished, processingItems, pl>>
  /\ UNCHANGED <<cacheVars, statusVars>>

\* dequeue(), the update({where: {id}}) write; it throws when the row is gone.
DequeueUpdate(d) ==
  /\ dq[d].pc = "update"
  /\ IF rows[dq[d].sel] = NoRow
       THEN /\ dq' = [dq EXCEPT ![d] = IdleCall]
            /\ UNCHANGED rows
       ELSE /\ rows' = [rows EXCEPT ![dq[d].sel].status = "PROCESSING"]
            /\ dq' = [dq EXCEPT ![d].pc = "add"]
  /\ UNCHANGED <<now, sideVars, orchVars, rmVars, nextId, requested, finished, processingItems, pl>>
  /\ UNCHANGED <<cacheVars, statusVars>>

\* dequeue(), after the write: processingItems.add and the return of the
\* selected row's repositoryUrl.
DequeueReturn(d) ==
  /\ dq[d].pc = "add"
  /\ processingItems' = processingItems \cup {dq[d].url}
  /\ dq' = [dq EXCEPT ![d] = IdleCall]
  /\ UNCHANGED <<now, sideVars, orchVars, rmVars, rows, nextId, requested, finished, pl>>
  /\ UNCHANGED <<cacheVars, statusVars>>

UpdateStatus(url, status) ==
  /\ UpdateStatusEffect(url, status)
  /\ UNCHANGED <<now, sideVars, orchVars, rmVars, nextId, requested, dq, pl>>
  /\ UNCHANGED <<cacheVars, statusVars>>

Cancel(id) ==
  /\ rows[id] # NoRow
  /\ rows' = [rows EXCEPT ![id].status = "CANCELLED"]
  /\ finished' = finished \cup {id}
  /\ processingItems' = processingItems \ {rows[id].url}
  /\ UNCHANGED <<now, sideVars, orchVars, rmVars, nextId, requested, dq, pl>>
  /\ UNCHANGED <<cacheVars, statusVars>>

RemoveFromQueue(url) ==
  /\ \E i \in Present : rows[i].url = url
  /\ RemoveFromQueueEffect(url)
  /\ UNCHANGED <<now, sideVars, orchVars, rmVars, nextId, requested, dq, pl>>
  /\ UNCHANGED <<cacheVars, statusVars>>

ClearQueue ==
  /\ Present # {}
  /\ rows' = [i \in RowIds |-> NoRow]
  /\ finished' = finished
  /\ processingItems' = {}
  /\ UNCHANGED <<now, sideVars, orchVars, rmVars, nextId, requested, dq, pl>>
  /\ UNCHANGED <<cacheVars, statusVars>>

Tick(limit) ==
  /\ now < limit
  /\ now' = now + 1
  /\ UNCHANGED <<sideVars, queueVars, cacheVars, statusVars, orchVars, rmVars>>

\* --------------------------------------------- Queue, the store failing
NoFailure == [op |-> "none", thrown |-> "none", returned |-> "none"]

\* the Error each operation's catch block throws
QueueErrorOf(op) ==
  CASE op = "dequeue" -> "Failed to dequeue analysis request"
    [] op = "updateStatus" -> "Failed to update queue item status"
    [] op = "cancel" -> "Failed to cancel queue item"

\* A catch block that released the subject's slot.
ReleasedAnyway(url) == {url}

\* The subjects whose processing slot a call releases when its store access
\* throws: processingItems is touched only after the awaited store calls.
ReleasedOnFailure(url) == {}

\* dequeue(): findFirst or update rejects; the catch block throws.
DequeueStoreFails(d) ==
  /\ dq[d].pc \in {"find", "update"}
  /\ dq' = [dq EXCEPT ![d] = IdleCall]
  /\ processingItems' = processingItems \ ReleasedOnFailure(dq[d].url)
  /\ qf' = [op |-> "dequeue", thrown |-> QueueErrorOf("dequeue"), returned |-> "none"]
  /\ UNCHANGED <<now, tc, mn, preferred, poolVars, notifications, tw, lastError, bk, ns, orchVars, rmVars, rows, nextId, requested, finished, pl,
                 cacheVars, statusVars>>

\* updateStatus(url, status): updateMany rejects; the catch block throws.
UpdateStatusStoreFails(url, status) ==
  /\ processingItems' = processingItems \ ReleasedOnFailure(url)
  /\ qf' = [op |-> "updateStatus", thrown |-> QueueErrorOf("updateStatus"),
            returned |-> "none"]
  /\ UNCHANGED <<now, tc, mn, preferred, poolVars, notifications, tw, lastError, bk, ns, orchVars, rmVars, rows, nextId, requested, finished, dq, pl,
                 cacheVars, statusVars>>

\* cancel(id): findUnique or update rejects; the catch block throws.
CancelStoreFails(id) ==
  /\ processingItems' =
       IF rows[id] = NoRow THEN processingItems
                           ELSE processingItems \ ReleasedOnFailure(rows[id].url)
  /\ qf' = [op |-> "cancel", thrown |-> QueueErrorOf("cancel"), returned |-> "none"]
  /\ UNCHANGED <<now, tc, mn, preferred, poolVars, notifications, tw, lastError, bk, ns, orchVars, rmVars, rows, nextId, requested, finished, dq, pl,
                 cacheVars, statusVars>>

\* ------------------------------------------------------ PipelineManager
\* The progress values a method's stages set, in order.
Stages(method) ==
  CASE method = "quick" -> <<30, 60, 100>>
    [] method = "deep" -> <<20, 40, 60, 80, 100>>
    [] method = "fallback" -> <<50, 100>>

NextProgress(method, progress) ==
  LET later == {k \in 1..Len(Stages(method)) : Stages(method)[k] > progress}
      k == CHOOSE x \in later : \A y \in later : x <= y
  IN Stages(method)[k]

\* PipelineManager.updateProgress: the status it writes for a progress value.
ProgressStatus(progress) == IF progress >= 100 THEN "COMPLETED" ELSE "IN_PROGRESS"

\* An external call (validateRepository, getRepositoryInfo, cloneRepository,
\* ...) stands between this point of the run and its next progress update.
ExternalCallAhead(run) ==
  \/ run.pc = "cleanup"
  \/ run.pc = "exec" /\ NextProgress(run.method, run.progress) < 100

PipelineResultOfQuick(run) == [repositoryUrl |-> run.url, analysisMethod |-> "quick"]

\* context.results as the execute*Analysis methods leave it
PipelineResult(run) == [repositoryUrl |-> run.url, analysisMethod |-> run.method]

IdleRun == [pc |-> "idle", url |-> "", method |-> "", progress |-> 0]

\* executePipeline up to the first await of initializePipeline: enqueue.
PipelineStart(r, url, method) ==
  /\ pl[r].pc = "idle"
  /\ StoreCreate(url, defaultPriority)
  /\ pl' = [pl EXCEPT ![r] = [pc |-> "init", url |-> url, method |-> method, progress |-> 0]]
  /\ UNCHANGED <<now, sideVars, orchVars, rmVars, finished, processingItems, dq>>
  /\ UNCHANGED <<cacheVars, statusVars>>

\* initializePipeline: notifyAnalysisStart, then updateProgress at progress 0.
PipelineInit(r) ==
  /\ pl[r].pc = "init"
  /\ UpdateStatusEffect(pl[r].url, ProgressStatus(pl[r].progress))
  /\ pl' = [pl EXCEPT ![r].pc = "exec"]
  /\ notifications' = Notified(Notified(notifications, "ANALYSIS_START", pl[r].url),
                               "ANALYSIS_PROGRESS", pl[r].url)
  /\ UNCHANGED <<now, tc, qf, ns, bk, tw, lastError, mn, preferred, poolVars, orchVars, rmVars, nextId, requested, dq>>
  /\ UNCHANGED <<cacheVars, statusVars>>

\* One stage of execute{Quick,Deep,Fallback}Analysis: the stage's external
\* call returned, context.progress is set and updateProgress writes it.
PipelineStage(r) ==
  /\ pl[r].pc = "exec"
  /\ LET p == NextProgress(pl[r].method, pl[r].progress) IN
       /\ UpdateStatusEffect(pl[r].url, ProgressStatus(p))
       /\ pl' = [pl EXCEPT ![r].progress = p,
                           ![r].pc = IF p < 100 THEN "exec"
                                     ELSE IF pl[r].method = "deep" THEN "cleanup"
                                     ELSE "finalize"]
  /\ notifications' = Notified(notifications, "ANALYSIS_PROGRESS", pl[r].url)
  /\ UNCHANGED <<now, tc, qf, ns, bk, tw, lastError, mn, preferred, poolVars, orchVars, rmVars, nextId, requested, dq>>
  /\ UNCHANGED <<cacheVars, statusVars>>

\* executeDeepAnalysis: storageService.cleanupRepository returned.
PipelineCleanup(r) ==
  /\ pl[r].pc = "cleanup"
  /\ pl' = [pl EXCEPT ![r].pc = "finalize"]
  /\ UNCHANGED <<now, sideVars, orchVars, rmVars, rows, nextId, requested, finished, processingItems, dq>>
  /\ UNCHANGED <<cacheVars, statusVars>>

\* finalizePipeline: setAnalysisResult, notifyAnalysisComplete, removeFromQueue.
PipelineFinalizeEffect(r) ==
  /\ pl[r].pc = "finalize"
  /\ cache' = CacheSet(cache, AnalysisKey(pl[r].url), PipelineResult(pl[r]), AnalysisTtl)
  /\ written' = Remember(written, AnalysisKey(pl[r].url), PipelineResult(pl[r]), AnalysisTtl)
  /\ RemoveFromQueueEffect(pl[r].url)
  /\ notifications' = Notified(notifications, "ANALYSIS_COMPLETE", pl[r].url)
  /\ pl' = [pl EXCEPT ![r] = IdleRun]

PipelineFinalize(r) ==
  /\ PipelineFinalizeEffect(r)
  /\ UNCHANGED <<now, tc, qf, ns, bk, tw, lastError, mn, preferred, poolVars, orchVars, rmVars, nextId, requested, dq, lastGet, statusVars>>

\* An external call threw: the catch of executePipeline runs
\* handlePipelineError (notifyAnalysisError, updateStatus(FAILED),
\* invalidateAll) and rethrows.
PipelineFailEffect(r) ==
  /\ ExternalCallAhead(pl[r])
  /\ UpdateStatusEffect(pl[r].url, "FAILED")
  /\ cache' = CacheInvalidateAll(cache, pl[r].url)
  /\ written' = Forget({k \in CacheKeys : k[1] = "repo" /\ k[2] = pl[r].url})
  /\ notifications' = Notified(notifications, "ANALYSIS_ERROR", pl[r].url)
  /\ pl' = [pl EXCEPT ![r] = IdleRun]

PipelineFail(r) ==
  /\ PipelineFailEffect(r)
  /\ UNCHANGED <<now, tc, qf, ns, bk, tw, lastError, mn, preferred, poolVars, orchVars, rmVars, nextId, requested, dq, lastGet, statusVars>>

PipelineStep(r) ==
  \/ PipelineInit(r)
  \/ PipelineStage(r)
  \/ PipelineCleanup(r)
  \/ PipelineFinalize(r)
  \/ PipelineFail(r)

\* -------------------------------------------------------- StatusManager
NoProgress == [status |-> "none"]
ProgressValues == {0, 50, 100}
TerminalStatus == {"COMPLETED", "FAILED", "CANCELLED"}

\* An error is modelled by the keywords its message includes.
Keywords == {"rate limit", "network", "storage"}
Errors == SUBSET Keywords

RateLimitMaxRetries == 3
NetworkMaxRetries == 5
StorageMaxRetries == 2

\* The strategies registered in the order STORAGE, NETWORK, RATE_LIMIT.
retryStrategiesReversed ==
  << [name |-> "STORAGE", maxRetries |-> StorageMaxRetries, keyword |-> "storage"],
     [name |-> "NETWORK", maxRetries |-> NetworkMaxRetries, keyword |-> "network"],
     [name |-> "RATE_LIMIT", maxRetries |-> RateLimitMaxRetries, keyword |-> "rate limit"] >>

\* initializeRetryStrategies: the strategies in registration order
retryStrategies ==
  << [name |-> "RATE_LIMIT", maxRetries |-> RateLimitMaxRetries, keyword |-> "rate limit"],
     [name |-> "NETWORK", maxRetries |-> NetworkMaxRetries, keyword |-> "network"],
     [name |-> "STORAGE", maxRetries |-> StorageMaxRetries, keyword |-> "storage"] >>

NoStrategy == [name |-> "NONE", maxRetries |-> 0, keyword |-> ""]

\* findRetryStrategy: the first registered strategy whose shouldRetry matches
findRetryStrategy(error) ==
  LET matching == {k \in 1..Len(retryStrategies) : retryStrategies[k].keyword \in error}
  IN IF matching = {} THEN NoStrategy
     ELSE retryStrategies[CHOOSE k \in matching : \A j \in matching : k <= j]

RetriesExhaustedOffByOne(attempts, strategy) == attempts > strategy.maxRetries

\* handleError: the comparison of the retry counter against the strategy
RetriesExhausted(attempts, strategy) == attempts >= strategy.maxRetries

\* markAsFailed: the progress record it leaves
FailedProgress(progress) == [progress EXCEPT !.status = "FAILED", !.error = TRUE]

\* history: the class governing every error handled since the counter reset
\* ("mixed" when they differ)
SeenWith(seen, name) == IF seen \in {"", name} THEN name ELSE "mixed"

InitializeProgress(url) ==
  /\ progressMap' = [progressMap EXCEPT ![url] =
                       [status |-> "PENDING", progress |-> 0, error |-> FALSE]]
  /\ cache' = CacheProgress(cache, url, 0)
  /\ written' = Remember(written, ProgressKey(url), 0, ProgressTtl)
  /\ notifications' = Notified(notifications, "ANALYSIS_START", url)
  /\ UNCHANGED <<now, tc, qf, ns, bk, tw, lastError, mn, preferred, poolVars, orchVars, rmVars, lastGet, queueVars, retryAttempts, handled, classesSeen, handleResult>>

\* StatusManager.updateProgress(url, progress, status?); status "undefined"
\* stands for the omitted argument.
UpdateProgress(url, progress, status) ==
  /\ progressMap[url] # NoProgress
  /\ progressMap' = [progressMap EXCEPT
                       ![url].progress = progress,
                       ![url].status = IF status = "undefined" THEN @ ELSE status]
  /\ cache' = CacheProgress(cache, url, progress)
  /\ written' = Remember(written, ProgressKey(url), progress, ProgressTtl)
  /\ notifications' =
       IF status = "IN_PROGRESS"
         THEN Notified(Notified(notifications, "ANALYSIS_PROGRESS", url), "QUEUE_UPDATE", url)
         ELSE Notified(notifications, "ANALYSIS_PROGRESS", url)
  /\ UNCHANGED <<now, tc, qf, ns, bk, tw, lastError, mn, preferred, poolVars, orchVars, rmVars, lastGet, queueVars, retryAttempts, handled, classesSeen, handleResult>>

CompleteAnalysis(url) ==
  /\ progressMap[url] # NoProgress
  /\ progressMap' = [progressMap EXCEPT ![url].status = "COMPLETED", ![url].progress = 100]
  /\ cache' = CacheProgress(cache, url, 100)
  /\ written' = Remember(written, ProgressKey(url), 100, ProgressTtl)
  /\ notifications' = Notified(notifications, "ANALYSIS_COMPLETE", url)
  /\ UNCHANGED <<now, tc, qf, ns, bk, tw, lastError, mn, preferred, poolVars, orchVars, rmVars, lastGet, queueVars, retryAttempts, handled, classesSeen, handleResult>>

\* handleError(url, error) for a subject without a progress record: false.
HandleErrorUntracked(url, error) ==
  /\ progressMap[url] = NoProgress
  /\ handleResult' = [handleResult EXCEPT ![url] = "false"]
  /\ UNCHANGED <<now, sideVars, orchVars, rmVars, queueVars, cacheVars, progressMap, retryAttempts, handled, classesSeen>>

\* handleError(url, error) for a subject with a progress record.
HandleError(url, error) ==
  /\ progressMap[url] # NoProgress
  /\ handled[url] < MaxErrors
  /\ LET strategy == findRetryStrategy(error)
         attempts == retryAttempts[url]
     IN /\ handled' = [handled EXCEPT ![url] = @ + 1]
        /\ classesSeen' = [classesSeen EXCEPT ![url] = SeenWith(@, strategy.name)]
        /\ IF strategy = NoStrategy \/ RetriesExhausted(attempts, strategy)
             THEN /\ progressMap' = [progressMap EXCEPT ![url] = FailedProgress(@)]
                  /\ notifications' = Notified(notifications, "ANALYSIS_ERROR", url)
                  /\ cache' = CacheInvalidateProgress(cache, url)
                  /\ written' = Forget({RepoProgressKey(url)})
                  /\ handleResult' = [handleResult EXCEPT ![url] = "false"]
                  /\ UNCHANGED retryAttempts
             ELSE /\ retryAttempts' = [retryAttempts EXCEPT ![url] = attempts + 1]
                  /\ handleResult' = [handleResult EXCEPT ![url] = "true"]
                  /\ UNCHANGED <<progressMap, cache, written, notifications>>
  /\ lastError' = [lastError EXCEPT ![url] = error]
  /\ UNCHANGED <<now, tc, qf, ns, bk, tw, mn, preferred, poolVars, orchVars, rmVars, lastGet, queueVars>>

KeepAttempts(attempts, url) == attempts

\* cleanup: retryAttempts.delete(url); an absent counter reads as 0
DeleteAttempts(attempts, url) == [attempts EXCEPT ![url] = 0]

\* StatusManager.cleanup(url)
Cleanup(url) ==
  /\ progressMap' = [progressMap EXCEPT ![url] = NoProgress]
  /\ retryAttempts' = DeleteAttempts(retryAttempts, url)
  /\ handled' = [handled EXCEPT ![url] = 0]
  /\ classesSeen' = [classesSeen EXCEPT ![url] = ""]
  /\ cache' = CacheInvalidateProgress(cache, url)
  /\ written' = Forget({RepoProgressKey(url)})
  /\ UNCHANGED <<now, sideVars, orchVars, rmVars, lastGet, queueVars, handleResult>>

\* Math.random() * 1000, in whole milliseconds
Jitters == {0, 500, 999}
NoBackoff == [attempt |-> 0, jitter |-> 0, result |-> 0]
IdleBackoff == [attempts |-> 0, waits |-> <<>>, call |-> NoBackoff]

\* handleError: the argument of strategy.onRetry, for a counter read as attempts
OnRetryAttempt(attempts) == attempts + 1

\* calculateBackoff(attempt), the jitter drawn being given
calculateBackoff(attempt, jitter) ==
  LET exponential == 1000 * 2^attempt
      base == IF exponential < 30000 THEN exponential ELSE 30000
  IN base + jitter

\* calculateBackoff applied to an attempt number.
CalculateBackoff(attempt, jitter) ==
  /\ bk' = [bk EXCEPT !.call = [attempt |-> attempt, jitter |-> jitter,
                                result |-> calculateBackoff(attempt, jitter)]]
  /\ UNCHANGED <<now, tc, qf, ns, lastError, tw, mn, preferred, poolVars, notifications, queueVars,
                 cacheVars, statusVars, orchVars, rmVars>>

\* handleError grants a retry of a rate-limit error: the counter goes up and
\* the RATE_LIMIT strategy's onRetry waits calculateBackoff of its argument.
RateLimitRetry(jitter) ==
  /\ ~RetriesExhausted(bk.attempts, retryStrategies[1])
  /\ LET attempt == OnRetryAttempt(bk.attempts)
         wait == calculateBackoff(attempt, jitter)
     IN bk' = [attempts |-> bk.attempts + 1,
               waits |-> Append(bk.waits, wait),
               call |-> [attempt |-> attempt, jitter |-> jitter, result |-> wait]]
  /\ UNCHANGED <<now, tc, qf, ns, lastError, tw, mn, preferred, poolVars, notifications, queueVars,
                 cacheVars, statusVars, orchVars, rmVars>>

\* cleanup of the subject: its counter is deleted.
BackoffCleanup ==
  /\ bk.attempts > 0
  /\ bk' = [bk EXCEPT !.attempts = 0, !.waits = <<>>]
  /\ UNCHANGED <<now, tc, qf, ns, lastError, tw, mn, preferred, poolVars, notifications, queueVars,
                 cacheVars, statusVars, orchVars, rmVars>>

\* ------------------------------------------------- AnalysisOrchestrator
\* What determineAnalysisMethod may return: a method and whether a fallback
\* is declared available for it.
Routes == [method : {"API", "CLONE", "FAILED"}, fallbackAvailable : BOOLEAN]

IdleRequest ==
  [pc |-> "idle", analysisMethod |-> "", fallbackAvailable |-> FALSE, progress |-> 0,
   itemStatus |-> "none", primaryFailed |-> FALSE, fallbackFailed |-> FALSE,
   fallbackAttempts |-> 0]

TriesFallbackForClone(request) == request.fallbackAvailable /\ request.analysisMethod = "CLONE"

\* processQueue, the catch of the primary attempt: whether it falls back
TriesFallback(request) == request.fallbackAvailable /\ request.analysisMethod = "API"

\* startAnalysis: the route is determined, the request enqueued and its
\* progress record created.
StartAnalysis(route) ==
  /\ orch.pc = "idle"
  /\ route.method # "FAILED"
  /\ orch' = [IdleRequest EXCEPT !.pc = "queued", !.analysisMethod = route.method,
                                 !.fallbackAvailable = route.fallbackAvailable,
                                 !.itemStatus = "PENDING"]
  /\ UNCHANGED <<now, sideVars, rmVars, queueVars, cacheVars, statusVars, rt>>

\* processQueue: dequeue() returned the item; progress 10 and the route is
\* being determined again.
ProcessDequeued ==
  /\ orch.pc = "queued"
  /\ orch' = [orch EXCEPT !.pc = "routing", !.itemStatus = "PROCESSING", !.progress = 10]
  /\ UNCHANGED <<now, sideVars, rmVars, queueVars, cacheVars, statusVars, rt>>

\* processQueue: the route came back; progress 20 and executeAnalysis is
\* called with the chosen method.
ProcessRouted(route) ==
  /\ orch.pc = "routing"
  /\ route.method # "FAILED"
  /\ orch' = [orch EXCEPT !.pc = "executing", !.progress = 20,
                          !.analysisMethod = route.method,
                          !.fallbackAvailable = route.fallbackAvailable]
  /\ UNCHANGED <<now, sideVars, rmVars, queueVars, cacheVars, statusVars, rt>>

\* processQueue: executeAnalysis returned; progress 80 and the AI analysis runs.
ProcessExecuted ==
  /\ orch.pc \in {"executing", "fb_executing"}
  /\ orch' = [orch EXCEPT !.pc = IF @ = "executing" THEN "analyzing" ELSE "fb_analyzing",
                          !.progress = 80]
  /\ UNCHANGED <<now, sideVars, rmVars, queueVars, cacheVars, statusVars, rt>>

\* processQueue: analyzeCode returned; progress 90 and the queue item is
\* being marked COMPLETED.
ProcessAnalyzed ==
  /\ orch.pc \in {"analyzing", "fb_analyzing"}
  /\ orch' = [orch EXCEPT !.pc = "completing", !.progress = 90]
  /\ UNCHANGED <<now, sideVars, rmVars, queueVars, cacheVars, statusVars, rt>>

\* processQueue: updateStatus(COMPLETED) returned; progress 100.
ProcessCompleted ==
  /\ orch.pc = "completing"
  /\ orch' = [orch EXCEPT !.pc = "done", !.progress = 100, !.itemStatus = "COMPLETED"]
  /\ UNCHANGED <<now, sideVars, rmVars, queueVars, cacheVars, statusVars, rt>>

\* processQueue: the primary attempt threw (the route failed or was FAILED,
\* executeAnalysis or analyzeCode threw): the catch either starts the
\* fallback at progress 30 or marks the item Failed.
ProcessPrimaryFailed ==
  /\ orch.pc \in {"routing", "executing", "analyzing"}
  /\ IF TriesFallback(orch)
       THEN orch' = [orch EXCEPT !.pc = "fb_executing", !.progress = 30,
                                 !.primaryFailed = TRUE,
                                 !.fallbackAttempts = @ + 1]
       ELSE orch' = [orch EXCEPT !.pc = "done", !.primaryFailed = TRUE,
                                 !.itemStatus = "FAILED"]
  /\ UNCHANGED <<now, sideVars, rmVars, queueVars, cacheVars, statusVars, rt>>

\* processQueue: the fallback attempt threw: the item is marked Failed.
ProcessFallbackFailed ==
  /\ orch.pc \in {"fb_executing", "fb_analyzing"}
  /\ orch' = [orch EXCEPT !.pc = "done", !.fallbackFailed = TRUE, !.itemStatus = "FAILED"]
  /\ UNCHANGED <<now, sideVars, rmVars, queueVars, cacheVars, statusVars, rt>>

\* The request is over; the next one may start.
RequestForgotten ==
  /\ orch.pc = "done"
  /\ orch' = IdleRequest
  /\ UNCHANGED <<now, sideVars, rmVars, queueVars, cacheVars, statusVars, rt>>

\* ------------------------------------------------------- AnalysisRouter
RouterOrder == <<"quick", "deep", "fallback">>
SizeThreshold == 1000000
\* metadata.size: numbers, and NaNSize for a size that is not a number
NaNSize == -1
MetadataSizes == {0, 999999, 1000000, 2000000, NaNSize}

\* registerStrategies: each strategy's canHandle
canHandle(method, size) ==
  CASE method = "quick" -> size # NaNSize /\ size < SizeThreshold
    [] method = "deep" -> size # NaNSize /\ size >= SizeThreshold
    [] method = "fallback" -> TRUE

registeredFallbackFirst == <<"fallback", "deep", "quick">>

\* registerStrategies: the strategies map in insertion order
registeredStrategies == <<"quick", "deep", "fallback">>

\* getPreferredMethod: the first registered strategy that can handle the
\* metadata, FALLBACK when none can.
PreferredMethodOf(size) ==
  LET able == {k \in 1..Len(registeredStrategies) : canHandle(registeredStrategies[k], size)}
  IN IF able = {} THEN "fallback"
     ELSE registeredStrategies[CHOOSE k \in able : \A j \in able : k <= j]

GetPreferredMethod(size) ==
  /\ preferred' = [size |-> size, method |-> PreferredMethodOf(size)]
  /\ UNCHANGED <<now, tc, qf, ns, bk, tw, lastError, mn, poolVars, notifications, queueVars, cacheVars, statusVars, orchVars, rmVars>>

\* routeAnalysis: its repositoryUrl argument
RoutedUrl == "A"
IdleRouting == [pc |-> "idle", size |-> 0, index |-> 0, tried |-> <<>>, result |-> ""]

\* routeAnalysis: getMetadata returned; the loop starts.
RouteAnalysis(size) ==
  /\ rt.pc = "idle"
  /\ rt' = [IdleRouting EXCEPT !.pc = "loop", !.size = size, !.index = 1]
  /\ UNCHANGED <<now, sideVars, rmVars, queueVars, cacheVars, statusVars, orch>>

\* routeAnalysis: one turn of the loop for a strategy that cannot handle the
\* metadata, or the throw after the last strategy.
RouteSkip ==
  /\ rt.pc = "loop"
  /\ IF rt.index > Len(RouterOrder)
       THEN rt' = [rt EXCEPT !.pc = "done", !.result = "throw"]
       ELSE /\ ~canHandle(RouterOrder[rt.index], rt.size)
            /\ rt' = [rt EXCEPT !.index = @ + 1]
  /\ UNCHANGED <<now, sideVars, rmVars, queueVars, cacheVars, statusVars, orch>>

\* routeAnalysis: the strategy can handle the metadata and its analyze is
\* called; it returns (ok) or throws and the loop continues.
RouteTry(ok) ==
  /\ rt.pc = "loop"
  /\ rt.index <= Len(RouterOrder)
  /\ canHandle(RouterOrder[rt.index], rt.size)
  /\ rt' = IF ok
             THEN [rt EXCEPT !.pc = "done", !.result = RouterOrder[rt.index],
                             !.tried = Append(@, RouterOrder[rt.index])]
             ELSE [rt EXCEPT !.index = @ + 1, !.tried = Append(@, RouterOrder[rt.index])]
  /\ notifications' = IF ok THEN Notified(notifications, "ANALYSIS_COMPLETE", RoutedUrl)
                             ELSE notifications
  /\ UNCHANGED <<now, tc, qf, ns, bk, tw, lastError, mn, preferred, poolVars, rmVars, queueVars, cacheVars, statusVars, orch>>

RouteForgotten ==
  /\ rt.pc = "done"
  /\ rt' = IdleRouting
  /\ UNCHANGED <<now, sideVars, rmVars, queueVars, cacheVars, statusVars, orch>>

\* ------------------------------------------------------ ResourceManager
\* Fractions are kept as integers: a storage usage as used and total, a CPU
\* or memory usage in percent, the thresholds in percent.
STORAGE_CLEANUP_THRESHOLD == 90
RATE_LIMIT_BUFFER == 10
SYSTEM_HEALTH_THRESHOLD == 90

\* The two of RateLimitType's values whose budgets the model tracks.
RateLimitTypes == {"GITHUB_API", "OPENAI_API"}
NoLimit == [limit |-> -1, remaining |-> -1]
LimitValues ==
  {NoLimit, [limit |-> 15, remaining |-> 2], [limit |-> 15, remaining |-> 3]}
StorageValues ==
  {[used |-> 8, total |-> 10], [used |-> 9, total |-> 10], [used |-> 0, total |-> 0]}
HealthValues ==
  {[cpu |-> 89, mem |-> 89], [cpu |-> 90, mem |-> 89], [cpu |-> 89, mem |-> 90]}

\* What the storage service, the operating system and the rate-limit store
\* report to one checkResources call, and what its cleanups find: the
\* repositories not accessed for a day, whether the average wait exceeds a
\* day, and the queue rows older than a day.
LimitReadings ==
  {[t \in RateLimitTypes |-> NoLimit]}
  \cup {[t \in RateLimitTypes |->
          IF t = "GITHUB_API" THEN v ELSE [limit |-> 15, remaining |-> 3]] : v \in LimitValues}
CleanupFindings ==
  {[oldRepos |-> {}, longWait |-> FALSE], [oldRepos |-> {"A"}, longWait |-> FALSE],
   [oldRepos |-> {}, longWait |-> TRUE]}
ResourceReadings ==
  {[storage |-> st, health |-> h, limits |-> l, oldRepos |-> c.oldRepos, longWait |-> c.longWait] :
     st \in StorageValues, h \in HealthValues, l \in LimitReadings, c \in CleanupFindings}

NoCall == [op |-> "none"]

StorageBelowOrAtThreshold(storage) ==
  storage.total > 0 /\ 100 * storage.used <= STORAGE_CLEANUP_THRESHOLD * storage.total

\* storageMetrics.totalSize / getTotalQuota() < threshold, as the division
\* of numbers decides it (x/0 is Infinity or NaN and is not below).
StorageBelowThreshold(storage) ==
  storage.total > 0 /\ 100 * storage.used < STORAGE_CLEANUP_THRESHOLD * storage.total

\* percentage >= threshold (NaN, 0/0, is not at or above either)
StorageAtThreshold(storage) ==
  IF storage.total = 0
    THEN storage.used > 0
    ELSE 100 * storage.used >= STORAGE_CLEANUP_THRESHOLD * storage.total

\* Math.ceil(limit.limit * RATE_LIMIT_BUFFER)
RateLimitBufferOf(limit) == (limit.limit * RATE_LIMIT_BUFFER + 99) \div 100

IsRateLimitCriticalBelowBuffer(limit) == limit.remaining < RateLimitBufferOf(limit)

\* ResourceManager.isRateLimitCritical
IsRateLimitCritical(limit) == limit.remaining <= RateLimitBufferOf(limit)

IsHealthy(health) ==
  health.cpu < SYSTEM_HEALTH_THRESHOLD /\ health.mem < SYSTEM_HEALTH_THRESHOLD

\* getAllRateLimits: the types for which getRateLimit returned a limit
TrackedLimits(limits) == {t \in RateLimitTypes : limits[t] # NoLimit}

\* checkResources: the ResourceMetrics it builds from the readings and the
\* queue's getMetrics (processing rows, config.maxConcurrent).
MetricsOf(r) ==
  LET active == Cardinality(ProcessingRows)
      isStorageAvailable == StorageBelowThreshold(r.storage)
      isQueueAvailable == active < maxConcurrent
      areRateLimitsAvailable ==
        \A t \in TrackedLimits(r.limits) : ~IsRateLimitCritical(r.limits[t])
      isSystemHealthy == IsHealthy(r.health)
  IN [storage |-> r.storage, active |-> active, maxConcurrent |-> maxConcurrent,
      limits |-> r.limits, health |-> r.health, isHealthy |-> isSystemHealthy,
      available |-> isStorageAvailable /\ isQueueAvailable
                    /\ areRateLimitsAvailable /\ isSystemHealthy]

\* performQueueCleanup: the FAILED rows older than a day are cancelled.
AgedFailedRows(r) ==
  IF r.longWait THEN {i \in Present : rows[i].status = "FAILED"} ELSE {}

\* checkResources: performStorageCleanup when storage is not available
\* (invalidateAll for each old repository) and performQueueCleanup when the
\* average wait is over a day (cancel and invalidateProgress for each old
\* FAILED row).
ResourceCleanups(r) ==
  LET repos == IF StorageBelowThreshold(r.storage) THEN {} ELSE r.oldRepos
      aged == AgedFailedRows(r)
      agedUrls == {rows[i].url : i \in aged}
      dropped == {k \in CacheKeys :
                    \/ k[1] = "repo" /\ k[2] \in repos
                    \/ \E u \in agedUrls : k = RepoProgressKey(u)}
  IN /\ rows' = [i \in RowIds |->
                   IF i \in aged THEN [rows[i] EXCEPT !.status = "CANCELLED"] ELSE rows[i]]
     /\ finished' = finished \cup aged
     /\ processingItems' = processingItems \ agedUrls
     /\ cache' = [k \in CacheKeys |-> IF k \in dropped THEN NoEntry ELSE cache[k]]
     /\ written' = Forget(dropped)

\* validateResources: the reasons it lists when the metrics are not available
ReasonsOf(metrics) ==
  (IF StorageAtThreshold(metrics.storage) THEN {"Storage quota exceeded"} ELSE {})
  \cup (IF metrics.active >= metrics.maxConcurrent THEN {"Queue capacity reached"} ELSE {})
  \cup (IF ~metrics.isHealthy THEN {"System resources constrained"} ELSE {})

\* checkResources() returns the metrics.
CheckResources(r) ==
  /\ rm' = [op |-> "checkResources", outcome |-> "metrics", metrics |-> MetricsOf(r)]
  /\ ResourceCleanups(r)
  /\ UNCHANGED <<now, sideVars, nextId, requested, dq, pl, lastGet, statusVars, orchVars>>

\* A reading or a cleanup of checkResources throws: checkResources and
\* validateResources throw ResourceError SYSTEM_ERROR.
ResourceCallFails(op) ==
  /\ rm' = [op |-> op, outcome |-> "SYSTEM_ERROR"]
  /\ UNCHANGED <<now, sideVars, queueVars, cacheVars, statusVars, orchVars>>

\* validateResources(repositoryUrl): true, or ResourceError RESOURCE_INVALID
\* with its reasons.
ValidateResources(r) ==
  LET metrics == MetricsOf(r) IN
  /\ rm' = IF metrics.available
             THEN [op |-> "validateResources", outcome |-> "true", metrics |-> metrics]
             ELSE [op |-> "validateResources", outcome |-> "RESOURCE_INVALID",
                   metrics |-> metrics, reasons |-> ReasonsOf(metrics)]
  /\ ResourceCleanups(r)
  /\ UNCHANGED <<now, sideVars, nextId, requested, dq, pl, lastGet, statusVars, orchVars>>

\* -------------------------------------------------------- LARPCheckApp
\* handleMention runs its pipeline as this run.
MentionRun == "r1"
MentionUrls == {"A", ""}

\* What checkResources reads while a mention is handled.
MentionReadings ==
  {r \in ResourceReadings :
     /\ r.health = [cpu |-> 89, mem |-> 89]
     /\ r.oldRepos = {} /\ ~r.longWait
     /\ \A t \in RateLimitTypes : r.limits[t] = NoLimit}

IdleMention ==
  [pc |-> "idle", url |-> "", checked |-> FALSE, admitted |-> FALSE,
   outcome |-> "none", enqueued |-> FALSE]

\* handleMention: the repository URL is matched in the mention's text; a
\* mention without one is dropped with a warning.
MentionArrives(url) ==
  /\ mn.pc = "idle"
  /\ mn' = IF url = ""
             THEN [IdleMention EXCEPT !.pc = "done", !.outcome = "returned"]
             ELSE [IdleMention EXCEPT !.pc = "check", !.url = url]
  /\ UNCHANGED <<now, tc, qf, ns, bk, tw, lastError, preferred, poolVars, notifications, queueVars, cacheVars, statusVars, orchVars, rmVars>>

\* handleMention: checkResources returned; unavailable resources are logged
\* as a warning and the handler returns.
MentionChecked(r) ==
  /\ mn.pc = "check"
  /\ rm' = [op |-> "checkResources", outcome |-> "metrics", metrics |-> MetricsOf(r)]
  /\ ResourceCleanups(r)
  /\ mn' = IF MetricsOf(r).available
             THEN [mn EXCEPT !.pc = "init", !.checked = TRUE, !.admitted = TRUE]
             ELSE [mn EXCEPT !.pc = "done", !.checked = TRUE, !.outcome = "returned"]
  /\ UNCHANGED <<now, tc, qf, ns, bk, tw, lastError, preferred, poolVars, notifications, nextId, requested, dq, pl, lastGet, statusVars, orchVars>>

\* handleMention: statusManager.initializeProgress(repoUrl)
MentionInitialized ==
  /\ mn.pc = "init"
  /\ progressMap' = [progressMap EXCEPT ![mn.url] =
                       [status |-> "PENDING", progress |-> 0, error |-> FALSE]]
  /\ cache' = CacheProgress(cache, mn.url, 0)
  /\ written' = Remember(written, ProgressKey(mn.url), 0, ProgressTtl)
  /\ mn' = [mn EXCEPT !.pc = "execute"]
  /\ notifications' = Notified(notifications, "ANALYSIS_START", mn.url)
  /\ UNCHANGED <<now, tc, qf, ns, bk, tw, lastError, preferred, poolVars, queueVars, lastGet, retryAttempts, handled, classesSeen,
                 handleResult, orchVars, rmVars>>

\* handleMention: executePipeline(repoUrl, QUICK, author) is called and
\* enqueues the request.
MentionExecutes ==
  /\ mn.pc = "execute"
  /\ pl[MentionRun].pc = "idle"
  /\ StoreCreate(mn.url, defaultPriority)
  /\ pl' = [pl EXCEPT ![MentionRun] =
              [pc |-> "init", url |-> mn.url, method |-> "quick", progress |-> 0]]
  /\ mn' = [mn EXCEPT !.pc = "running", !.enqueued = TRUE]
  /\ UNCHANGED <<now, tc, qf, ns, bk, tw, lastError, preferred, poolVars, notifications, finished, processingItems, dq, cacheVars, statusVars, orchVars, rmVars>>

\* handleMention: executePipeline returned its result; the reply is sent.
MentionPipelineReturns ==
  /\ mn.pc = "running"
  /\ PipelineFinalizeEffect(MentionRun)
  /\ mn' = [mn EXCEPT !.pc = "reply"]
  /\ UNCHANGED <<now, tc, qf, ns, bk, tw, lastError, preferred, poolVars, nextId, requested, dq, lastGet, statusVars, orchVars, rmVars>>

\* handleMention: executePipeline threw; the catch logs the error.
MentionPipelineThrows ==
  /\ mn.pc = "running"
  /\ PipelineFailEffect(MentionRun)
  /\ mn' = [mn EXCEPT !.pc = "done", !.outcome = "logged"]
  /\ UNCHANGED <<now, tc, qf, ns, bk, tw, lastError, preferred, poolVars, nextId, requested, dq, lastGet, statusVars, orchVars, rmVars>>

\* handleMention: twitterService.reply returned (replied) or threw, then
\* statusManager.cleanup(repoUrl) after a reply that was sent.
MentionReplied(replied) ==
  /\ mn.pc = "reply"
  /\ IF replied
       THEN /\ progressMap' = [progressMap EXCEPT ![mn.url] = NoProgress]
            /\ retryAttempts' = DeleteAttempts(retryAttempts, mn.url)
            /\ handled' = [handled EXCEPT ![mn.url] = 0]
            /\ classesSeen' = [classesSeen EXCEPT ![mn.url] = ""]
            /\ cache' = CacheInvalidateProgress(cache, mn.url)
            /\ written' = Forget({RepoProgressKey(mn.url)})
            /\ mn' = [mn EXCEPT !.pc = "done", !.outcome = "replied"]
       ELSE /\ mn' = [mn EXCEPT !.pc = "done", !.outcome = "logged"]
            /\ UNCHANGED <<progressMap, retryAttempts, handled, classesSeen, cache, written>>
  /\ UNCHANGED <<now, tc, qf, ns, bk, tw, lastError, preferred, poolVars, notifications, queueVars, lastGet, handleResult, orchVars, rmVars>>

\* The handler is over; the next mention may be handled.
MentionForgotten ==
  /\ mn.pc = "done"
  /\ mn' = IdleMention
  /\ UNCHANGED <<now, tc, qf, ns, bk, tw, lastError, preferred, poolVars, notifications, queueVars, cacheVars, statusVars, orchVars, rmVars>>

\* ----------------------------------------------------------- WorkerPool
Workers == 1..maxWorkers
TaskIds == 1..MaxTasks
WorkerStatus == {"IDLE", "BUSY", "ERROR", "SHUTDOWN"}
NoTask == [state |-> "none", priority |-> 0, worker |-> None, future |-> "none", starts |-> 0]

\* The first position of q holding a task of the highest priority.
RECURSIVE FirstHighest(_, _, _)
FirstHighest(q, ts, k) ==
  IF \A j \in 1..Len(q) : ts[q[j]].priority <= ts[q[k]].priority
    THEN k
    ELSE FirstHighest(q, ts, k + 1)

\* queue.sort((a, b) => b.priority - a.priority): a stable sort, descending
RECURSIVE SortByPriority(_, _)
SortByPriority(q, ts) ==
  IF q = <<>> THEN <<>>
  ELSE LET k == FirstHighest(q, ts, 1)
           rest == [j \in 1..(Len(q) - 1) |-> IF j < k THEN q[j] ELSE q[j + 1]]
       IN <<q[k]>> \o SortByPriority(rest, ts)

AfterPushUnsorted(q, t, ts) == Append(q, t)

\* addTask: queue.push(queueItem); queue.sort(...)
AfterPush(q, t, ts) == SortByPriority(Append(q, t), ts)

AnyWorker(ws) == Workers

\* processQueue: the workers whose status is IDLE
IdleWorkers(ws) == {w \in Workers : ws[w].status = "IDLE"}

AcceptsAlways == TRUE

\* addTask: whether the pool still takes tasks
AcceptsTasks == ~isShuttingDown

StatusAfterFailureIdle == "IDLE"

\* processQueue, catch: the status the worker of a failed task gets
StatusAfterFailure == "ERROR"

StatusAfterCooldownError == "ERROR"

\* processQueue, the timer's callback: the status the worker gets back
StatusAfterCooldown == "IDLE"

\* processQueue() run on the pool as (ws, q, ts): with a waiting task and an
\* IDLE worker, the first such worker takes the head of the list.
ProcessQueue(ws, q, ts) ==
  IF q = <<>> \/ IdleWorkers(ws) = {}
    THEN /\ workers' = ws
         /\ pending' = q
         /\ tasks' = ts
    ELSE LET w == CHOOSE x \in IdleWorkers(ws) : \A y \in IdleWorkers(ws) : x <= y
             t == Head(q)
         IN /\ workers' = [ws EXCEPT ![w] = [status |-> "BUSY", currentTask |-> t]]
            /\ pending' = Tail(q)
            /\ tasks' = [ts EXCEPT ![t].state = "running", ![t].worker = w,
                                   ![t].starts = @ + 1]

\* addTask(task, priority) on a pool that is shutting down throws.
AddTaskRefused ==
  /\ ~AcceptsTasks
  /\ lastAdd' = "threw"
  /\ UNCHANGED <<workers, pending, isShuttingDown, tasks, nextTask, notifications>>
  /\ UNCHANGED <<now, tc, qf, ns, bk, tw, lastError, mn, preferred, queueVars, cacheVars, statusVars, orchVars, rmVars>>

\* addTask(task, priority): the task joins the sorted list, QUEUE_UPDATE is
\* notified and processQueue runs.
AddTask(priority) ==
  /\ AcceptsTasks
  /\ nextTask <= MaxTasks
  /\ LET t == nextTask
         ts == [tasks EXCEPT ![t] = [state |-> "waiting", priority |-> priority,
                                      worker |-> None, future |-> "pending", starts |-> 0]]
     IN ProcessQueue(workers, AfterPush(pending, t, ts), ts)
  /\ nextTask' = nextTask + 1
  /\ lastAdd' = "accepted"
  /\ notifications' = notifications \cup {[type |-> "QUEUE_UPDATE", taskId |-> nextTask]}
  /\ UNCHANGED <<now, tc, qf, ns, bk, tw, lastError, mn, preferred, isShuttingDown, queueVars, cacheVars, statusVars,
                 orchVars, rmVars>>

\* processQueue after await queueItem.task() returned: the worker is IDLE
\* again, the future resolves and processQueue runs.
TaskCompletes(t) ==
  /\ tasks[t].state = "running"
  /\ LET w == tasks[t].worker
     IN ProcessQueue([workers EXCEPT ![w] = [status |-> "IDLE", currentTask |-> None]],
                     pending,
                     [tasks EXCEPT ![t].state = "done", ![t].future = "resolved"])
  /\ UNCHANGED <<now, tc, qf, ns, bk, tw, lastError, mn, preferred, isShuttingDown, nextTask, lastAdd, notifications,
                 queueVars, cacheVars, statusVars, orchVars, rmVars>>

\* processQueue, catch: the task threw; the worker is marked and
\* WORKER_ERROR is notified.
TaskFails(t) ==
  /\ tasks[t].state = "running"
  /\ workers' = [workers EXCEPT ![tasks[t].worker] =
                   [status |-> StatusAfterFailure, currentTask |-> None]]
  /\ tasks' = [tasks EXCEPT ![t].state = "notifying"]
  /\ notifications' = notifications \cup {[type |-> "WORKER_ERROR", taskId |-> t]}
  /\ UNCHANGED <<now, tc, qf, ns, bk, tw, lastError, mn, preferred, pending, isShuttingDown, nextTask, lastAdd,
                 queueVars, cacheVars, statusVars, orchVars, rmVars>>

\* processQueue, catch: notify returned; the future is rejected and the
\* one-second timer is set.
TaskRejected(t) ==
  /\ tasks[t].state = "notifying"
  /\ tasks' = [tasks EXCEPT ![t].state = "cooling", ![t].future = "rejected"]
  /\ UNCHANGED <<now, tc, qf, ns, bk, tw, lastError, mn, preferred, workers, pending, isShuttingDown, nextTask, lastAdd,
                 notifications, queueVars, cacheVars, statusVars, orchVars, rmVars>>

\* The timer of a failed task fires: its worker is IDLE and processQueue runs.
CooldownOver(t) ==
  /\ tasks[t].state = "cooling"
  /\ ProcessQueue([workers EXCEPT ![tasks[t].worker].status = StatusAfterCooldown],
                  pending,
                  [tasks EXCEPT ![t].state = "failed"])
  /\ UNCHANGED <<now, tc, qf, ns, bk, tw, lastError, mn, preferred, isShuttingDown, nextTask, lastAdd, notifications,
                 queueVars, cacheVars, statusVars, orchVars, rmVars>>

\* shutdown(): every worker is marked SHUTDOWN and the list is cleared.
Shutdown ==
  /\ isShuttingDown' = TRUE
  /\ workers' = [w \in Workers |-> [workers[w] EXCEPT !.status = "SHUTDOWN"]]
  /\ pending' = <<>>
  /\ tasks' = [t \in TaskIds |->
                 IF tasks[t].state = "waiting"
                   THEN [tasks[t] EXCEPT !.state = "dropped"]
                   ELSE tasks[t]]
  /\ UNCHANGED <<now, tc, qf, ns, bk, tw, lastError, mn, preferred, nextTask, lastAdd, notifications,
                 queueVars, cacheVars, statusVars, orchVars, rmVars>>

\* ------------------------------------------------------- TwitterService
TwitterMaxRetries == 3
Tweets == {"t1", "t2"}
Rounds == {"p1", "p2"}      \* processMention calls that may be in flight together
IdleRound == [pc |-> "idle", tweet |-> "", index |-> 0, retries |-> 0]

\* processMention: whether the tweet is skipped as already processed
AlreadyProcessed(tweet) == tweet \in tw.processedMentions

\* onMention(callback): the callback is registered and startMentionListener
\* sets one more polling timer.
OnMention ==
  /\ tw.mentionCallbacks < MaxCallbacks
  /\ tw' = [tw EXCEPT !.mentionCallbacks = @ + 1, !.intervals = @ + 1]
  /\ UNCHANGED <<now, tc, qf, ns, bk, lastError, mn, preferred, poolVars, notifications, queueVars, cacheVars,
                 statusVars, orchVars, rmVars>>

\* A polling round found the tweet valid and calls processMention: it
\* returns at once for a processed tweet and else enters the callback loop.
ProcessMention(r, tweet) ==
  /\ tw.intervals >= 1
  /\ tw.calls[r].pc = "idle"
  /\ tw' = IF AlreadyProcessed(tweet)
             THEN tw
             ELSE [tw EXCEPT !.calls[r] =
                     [pc |-> "calling", tweet |-> tweet, index |-> 1, retries |-> 0]]
  /\ tw' # tw
  /\ UNCHANGED <<now, tc, qf, ns, bk, lastError, mn, preferred, poolVars, notifications, queueVars, cacheVars,
                 statusVars, orchVars, rmVars>>

\* processMention: await callback(mention) for the next registered callback
\* returned (ok) or threw; after the last callback the tweet is recorded as
\* processed, after a throw the loop starts over unless the retries are spent.
CallbackInvoked(r, ok) ==
  LET call == tw.calls[r] IN
  /\ call.pc = "calling"
  /\ call.index <= tw.mentionCallbacks
  /\ tw.invoked[call.tweet][call.index] < MaxInvocations
  /\ LET counted == [tw EXCEPT !.invoked[call.tweet][call.index] = @ + 1] IN
       tw' = IF ok
               THEN IF call.index < tw.mentionCallbacks
                      THEN [counted EXCEPT !.calls[r].index = @ + 1]
                      ELSE [counted EXCEPT !.calls[r] = IdleRound,
                                           !.processedMentions = @ \cup {call.tweet}]
               ELSE IF call.retries + 1 = TwitterMaxRetries
                      THEN [counted EXCEPT !.calls[r] = IdleRound]
                      ELSE [counted EXCEPT !.calls[r].index = 1,
                                           !.calls[r].retries = @ + 1]
  /\ UNCHANGED <<now, tc, qf, ns, bk, lastError, mn, preferred, poolVars, notifications, queueVars, cacheVars,
                 statusVars, orchVars, rmVars>>

\* The cacheTimeout timer of a processed tweet fires.
MentionCacheExpires(tweet) ==
  /\ tweet \in tw.processedMentions
  /\ tw' = [tw EXCEPT !.processedMentions = @ \ {tweet}]
  /\ UNCHANGED <<now, tc, qf, ns, bk, lastError, mn, preferred, poolVars, notifications, queueVars, cacheVars,
                 statusVars, orchVars, rmVars>>

\* -------------------------------------------------- NotificationService
Listeners == {"l1", "l2"}
SubscribedTypes == {"ANALYSIS_START", "ANALYSIS_ERROR"}
NotifiedUrl == "A"

IdleNotifier ==
  [subscribers |-> [type \in SubscribedTypes |-> <<>>],
   type |-> "none", called |-> {}, failed |-> {}, outcome |-> "none"]

\* indexOf(callback): the first index of the callback, 0 for -1
IndexOf(list, callback) ==
  IF \E i \in 1..Len(list) : list[i] = callback
    THEN CHOOSE i \in 1..Len(list) :
           list[i] = callback /\ \A j \in 1..(i - 1) : list[j] # callback
    ELSE 0

\* splice(index, 1)
Splice(list, index) ==
  [i \in 1..(Len(list) - 1) |-> IF i < index THEN list[i] ELSE list[i + 1]]

\* subscribe(type, callback)
Subscribe(type, callback) ==
  /\ Len(ns.subscribers[type]) < MaxSubscribers
  /\ ns' = [ns EXCEPT !.subscribers[type] = Append(@, callback)]
  /\ UNCHANGED <<now, tc, qf, bk, lastError, tw, mn, preferred, poolVars, notifications, queueVars, cacheVars, statusVars, orchVars, rmVars>>

\* unsubscribe(type, callback)
Unsubscribe(type, callback) ==
  /\ LET index == IndexOf(ns.subscribers[type], callback)
     IN ns' = IF index > 0
                THEN [ns EXCEPT !.subscribers[type] = Splice(@, index)]
                ELSE ns
  /\ UNCHANGED <<now, tc, qf, bk, lastError, tw, mn, preferred, poolVars, notifications, queueVars, cacheVars, statusVars, orchVars, rmVars>>

\* notify without the catch on each callback's promise: Promise.all rejects
\* when a callback's promise does.
OutcomeUncaught(failed) == IF failed = {} THEN "resolved" ELSE "rejected"

\* notify: what Promise.all of the callbacks' promises, each with its catch,
\* settles to when the callbacks in failed reject
NotifyOutcome(failed) == "resolved"

\* notify(notification) for a notification of the type about NotifiedUrl;
\* the callbacks in failing reject their promise.
Notify(type, failing) ==
  LET subscribers == ns.subscribers[type]
      called == {subscribers[i] : i \in 1..Len(subscribers)}
  IN /\ notifications' = Notified(notifications, type, NotifiedUrl)
     /\ ns' = [ns EXCEPT !.type = type, !.called = called,
                         !.failed = called \cap failing,
                         !.outcome = NotifyOutcome(called \cap failing)]
     /\ UNCHANGED <<now, tc, qf, bk, lastError, tw, mn, preferred, poolVars, queueVars,
                    cacheVars, statusVars, orchVars, rmVars>>

\* ------------------------------------------------ TwitterService.tweet
TwitterBackoffTime == 5000
TwitterMaxBackoffTime == 900000

\* What one pass of the loop of tweet() meets: a tweet id, a response
\* without id, or an error thrown by handleRateLimit or sendTweetV2.
SendOutcomes == {"id", "noId", "sessionError", "rateLimitError", "otherError"}

IdleTweet ==
  [pc |-> "idle", isAuthenticated |-> TRUE, retries |-> 0, failures |-> <<>>,
   rateLimitDelay |-> 0]

\* handleRateLimit(error): the delay after one more rate-limit error
RateLimitDelayAfter(delay) ==
  IF delay + TwitterBackoffTime < TwitterMaxBackoffTime
    THEN delay + TwitterBackoffTime
    ELSE TwitterMaxBackoffTime

\* tweet(content, replyToId) is called.
TweetCalled ==
  /\ tc.pc \in {"idle", "returned", "threw"}
  /\ tc.pc = "idle" \/ ~tc.isAuthenticated
  /\ tc' = IF tc.isAuthenticated
             THEN [tc EXCEPT !.pc = "loop", !.retries = 0, !.failures = <<>>]
             ELSE [tc EXCEPT !.pc = "threw", !.retries = 0, !.failures = <<>>]
  /\ UNCHANGED <<now, mn, preferred, poolVars, notifications, tw, lastError, bk, ns, qf, queueVars, cacheVars, statusVars, orchVars, rmVars>>

\* One pass of the while loop of tweet(): handleRateLimit() waits,
\* sendTweetV2 is called, and the try or the catch block runs.
TweetPass(outcome) ==
  /\ tc.pc = "loop"
  /\ outcome # "id" => Len(tc.failures) < MaxSends
  /\ tc' =
       CASE outcome = "id" ->
              [tc EXCEPT !.pc = "returned", !.rateLimitDelay = 0]
         [] outcome = "sessionError" ->
              [tc EXCEPT !.pc = "threw", !.isAuthenticated = FALSE,
                         !.failures = Append(@, outcome)]
         [] outcome = "rateLimitError" ->
              [tc EXCEPT !.rateLimitDelay = RateLimitDelayAfter(@),
                         !.failures = Append(@, outcome)]
         [] OTHER ->
              [tc EXCEPT !.retries = @ + 1,
                         !.pc = IF tc.retries + 1 = TwitterMaxRetries THEN "threw" ELSE "loop",
                         !.failures = Append(@, outcome)]
  /\ UNCHANGED <<now, mn, preferred, poolVars, notifications, tw, lastError, bk, ns, qf, queueVars, cacheVars, statusVars, orchVars, rmVars>>

\* ------------------------------------------------------- specifications
Init ==
  /\ now = 0
  /\ rows = [i \in RowIds |-> NoRow]
  /\ nextId = 1
  /\ requested = [i \in RowIds |-> None]
  /\ finished = {}
  /\ processingItems = {}
  /\ dq = [d \in Dequeuers |-> IdleCall]
  /\ pl = [r \in Runs |-> IdleRun]
  /\ cache = [k \in CacheKeys |-> NoEntry]
  /\ written = [k \in CacheKeys |-> NoEntry]
  /\ lastGet = [key |-> <<>>, at |-> 0, result |-> Null, set |-> NoEntry]
  /\ progressMap = [u \in Urls |-> NoProgress]
  /\ retryAttempts = [u \in Urls |-> 0]
  /\ handled = [u \in Urls |-> 0]
  /\ classesSeen = [u \in Urls |-> ""]
  /\ lastError = [u \in Urls |-> {}]
  /\ bk = IdleBackoff
  /\ ns = IdleNotifier
  /\ qf = NoFailure
  /\ tc = IdleTweet
  /\ handleResult = [u \in Urls |-> "none"]
  /\ orch = IdleRequest
  /\ rt = IdleRouting
  /\ rm = NoCall
  /\ mn = IdleMention
  /\ preferred = [size |-> 0, method |-> "none"]
  /\ workers = [w \in Workers |-> [status |-> "IDLE", currentTask |-> None]]
  /\ pending = <<>>
  /\ isShuttingDown = FALSE
  /\ tasks = [t \in TaskIds |-> NoTask]
  /\ nextTask = 1
  /\ lastAdd = "none"
  /\ notifications = {}
  /\ tw = [mentionCallbacks |-> 0, processedMentions |-> {}, intervals |-> 0,
           calls |-> [r \in Rounds |-> IdleRound],
           invoked |-> [t \in Tweets |-> [k \in 1..MaxCallbacks |-> 0]]]

\* The Queue under arbitrary callers of its operations.
Next ==
  \/ Tick(MaxTime)
  \/ \E u \in Urls, p \in 1..MaxPriority : Enqueue(u, p)
  \/ \E d \in Dequeuers : DequeueCheck(d)
  \/ \E d \in Dequeuers : DequeueFind(d)
  \/ \E d \in Dequeuers : DequeueUpdate(d)
  \/ \E d \in Dequeuers : DequeueReturn(d)
  \/ \E u \in Urls, s \in AnalysisStatus : UpdateStatus(u, s)
  \/ \E i \in RowIds : Cancel(i)
  \/ \E u \in Urls : RemoveFromQueue(u)
  \/ ClearQueue

Spec == Init /\ [][Next]_vars

\* The Queue as the PipelineManager drives it: concurrent executePipeline
\* runs, one dequeue() caller and cancellation requests.
NextPipeline ==
  \/ Tick(MaxTime)
  \/ \E r \in Runs, u \in Urls, m \in AnalysisMethod : PipelineStart(r, u, m)
  \/ \E r \in Runs : PipelineInit(r)
  \/ \E r \in Runs : PipelineStage(r)
  \/ \E r \in Runs : PipelineCleanup(r)
  \/ \E r \in Runs : PipelineFinalize(r)
  \/ \E r \in Runs : PipelineFail(r)
  \/ DequeueCheck("d1")
  \/ DequeueFind("d1")
  \/ DequeueUpdate("d1")
  \/ DequeueReturn("d1")
  \/ \E i \in RowIds : Cancel(i)

SpecPipeline == Init /\ [][NextPipeline]_vars
\* The CacheService alone, under arbitrary callers and a running clock.
CacheValues == {"v1", "v2"}
ClientKeys == {AnalysisKey("A"), ProgressKey("A")}
NextCache ==
  \/ Tick(MaxCacheTime)
  \/ \E k \in ClientKeys, v \in CacheValues, t \in 1..MaxTtl : Set(k, v, t)
  \/ \E k \in ClientKeys : Get(k)
  \/ \E k \in ClientKeys : Delete(k)
  \/ \E u \in Urls : InvalidateAll(u)
  \/ CacheCleanup

SpecCache == Init /\ [][NextCache]_vars

\* The StatusManager under arbitrary callers of its operations. One subject
\* has a progress record; errors are also handled for a subject without one.
ProgressUrls == {"A"}
StatusArgs == {"undefined", "IN_PROGRESS", "COMPLETED", "FAILED", "CANCELLED"}
NextStatus ==
  \/ \E u \in ProgressUrls : InitializeProgress(u)
  \/ \E u \in ProgressUrls, p \in ProgressValues, st \in StatusArgs : UpdateProgress(u, p, st)
  \/ \E u \in ProgressUrls : CompleteAnalysis(u)
  \/ \E u \in Urls, e \in Errors : HandleErrorUntracked(u, e)
  \/ \E u \in Urls, e \in Errors : HandleError(u, e)
  \/ \E u \in Urls : Cleanup(u)

SpecStatus == Init /\ [][NextStatus]_vars

\* One request through AnalysisOrchestrator.processQueue and one
\* AnalysisRouter.routeAnalysis call, every external call free to throw.
NextFallback ==
  \/ \E route \in Routes : StartAnalysis(route)
  \/ ProcessDequeued
  \/ \E route \in Routes : ProcessRouted(route)
  \/ ProcessExecuted
  \/ ProcessAnalyzed
  \/ ProcessCompleted
  \/ ProcessPrimaryFailed
  \/ ProcessFallbackFailed
  \/ RequestForgotten
  \/ \E size \in MetadataSizes : RouteAnalysis(size)
  \/ RouteSkip
  \/ \E ok \in BOOLEAN : RouteTry(ok)
  \/ RouteForgotten
  \/ \E size \in MetadataSizes : GetPreferredMethod(size)

SpecFallback == Init /\ [][NextFallback]_vars

\* ResourceManager over a queue whose rows the callers enqueue and update.
NextResources ==
  \/ Enqueue("A", defaultPriority)
  \/ \E status \in {"IN_PROGRESS", "FAILED", "COMPLETED"} : UpdateStatus("A", status)
  \/ \E r \in ResourceReadings : CheckResources(r)
  \/ \E r \in ResourceReadings : ValidateResources(r)
  \/ \E op \in {"checkResources", "validateResources"} : ResourceCallFails(op)

SpecResources == Init /\ [][NextResources]_vars

\* Mentions handled one after another by LARPCheckApp.handleMention.
NextMention ==
  \/ \E url \in MentionUrls : MentionArrives(url)
  \/ \E r \in MentionReadings : MentionChecked(r)
  \/ MentionInitialized
  \/ MentionExecutes
  \/ PipelineInit(MentionRun)
  \/ PipelineStage(MentionRun)
  \/ MentionPipelineReturns
  \/ MentionPipelineThrows
  \/ \E replied \in BOOLEAN : MentionReplied(replied)
  \/ MentionForgotten
  \/ \E status \in {"IN_PROGRESS", "FAILED"} : UpdateStatus("B", status)
  \/ Enqueue("B", defaultPriority)

SpecMention == Init /\ [][NextMention]_vars

\* The worker pool: tasks are submitted, finish or fail, and the pool may be
\* shut down.
NextPool ==
  \/ \E priority \in 1..MaxTaskPriority : AddTask(priority)
  \/ AddTaskRefused
  \/ \E t \in TaskIds : TaskCompletes(t)
  \/ \E t \in TaskIds : TaskFails(t)
  \/ \E t \in TaskIds : TaskRejected(t)
  \/ \E t \in TaskIds : CooldownOver(t)
  \/ Shutdown

SpecPool == Init /\ [][NextPool]_vars

\* The pool when shutdown is never called.
NextPoolLive ==
  \/ \E priority \in 1..MaxTaskPriority : AddTask(priority)
  \/ \E t \in TaskIds : TaskCompletes(t)
  \/ \E t \in TaskIds : TaskFails(t)
  \/ \E t \in TaskIds : TaskRejected(t)
  \/ \E t \in TaskIds : CooldownOver(t)

\* Every executing task returns or throws, the notification of a failure
\* returns, and the one-second timer fires.
SpecPoolLive ==
  /\ Init /\ [][NextPoolLive]_vars
  /\ WF_vars(\E t \in TaskIds : TaskCompletes(t) \/ TaskFails(t))
  /\ WF_vars(\E t \in TaskIds : TaskRejected(t))
  /\ WF_vars(\E t \in TaskIds : CooldownOver(t))

\* The pool with shutdown, under the same progress conditions.
SpecPoolShutdownLive ==
  /\ Init /\ [][NextPool]_vars
  /\ WF_vars(\E t \in TaskIds : TaskCompletes(t) \/ TaskFails(t))
  /\ WF_vars(\E t \in TaskIds : TaskRejected(t))
  /\ WF_vars(\E t \in TaskIds : CooldownOver(t))

\* The mention listener: callbacks are registered, polling rounds overlap
\* and the processed-mention cache expires.
NextTwitter ==
  \/ OnMention
  \/ \E r \in Rounds, tweet \in Tweets : ProcessMention(r, tweet)
  \/ \E r \in Rounds, ok \in BOOLEAN : CallbackInvoked(r, ok)
  \/ \E tweet \in Tweets : MentionCacheExpires(tweet)

SpecTwitter == Init /\ [][NextTwitter]_vars

\* The waits of the RATE_LIMIT strategy: calculateBackoff on any attempt
\* number, and the retries handleError grants one subject.
NextBackoff ==
  \/ \E attempt \in 0..MaxAttempt, jitter \in Jitters : CalculateBackoff(attempt, jitter)
  \/ \E jitter \in Jitters : RateLimitRetry(jitter)
  \/ BackoffCleanup

SpecBackoff == Init /\ [][NextBackoff]_vars

\* NotificationService with callbacks subscribing and unsubscribing between
\* notifications.
NextNotify ==
  \/ \E type \in SubscribedTypes, callback \in Listeners : Subscribe(type, callback)
  \/ \E type \in SubscribedTypes, callback \in Listeners : Unsubscribe(type, callback)
  \/ \E type \in SubscribedTypes, failing \in SUBSET Listeners : Notify(type, failing)

SpecNotify == Init /\ [][NextNotify]_vars

\* The statuses the callers of updateStatus pass
FaultStatuses == {"IN_PROGRESS", "COMPLETED", "FAILED"}

\* The Queue's operations over a store whose calls may fail.
NextQueueFaults ==
  \/ \E u \in Urls : Enqueue(u, defaultPriority)
  \/ \E d \in Dequeuers : DequeueCheck(d)
  \/ \E d \in Dequeuers : DequeueFind(d)
  \/ \E d \in Dequeuers : DequeueUpdate(d)
  \/ \E d \in Dequeuers : DequeueReturn(d)
  \/ \E u \in Urls, s \in FaultStatuses : UpdateStatus(u, s)
  \/ \E i \in RowIds : Cancel(i)
  \/ \E d \in Dequeuers : DequeueStoreFails(d)
  \/ \E u \in Urls, s \in FaultStatuses : UpdateStatusStoreFails(u, s)
  \/ \E i \in RowIds : CancelStoreFails(i)

SpecQueueFaults == Init /\ [][NextQueueFaults]_vars

\* One tweet() call of an authenticated service, and the calls made after
\* a session error.
NextTweet ==
  \/ TweetCalled
  \/ \E outcome \in SendOutcomes : TweetPass(outcome)

SpecTweet == Init /\ [][NextTweet]_vars

\* --------------------------------------------------------------- claims
\* C1: in every reachable state the number of queue items whose status is
\* Processing is at most maxConcurrent.
C1_ProcessingWithinMaxConcurrent == Cardinality(ProcessingRows) <= maxConcurrent

\* C2: the item a dequeue() call selects is, among the items Pending at that
\* moment, the one submitted with the highest priority, and among those of
\* that priority the one created first.
C2_DequeueServesHighestPriority ==
  [][\A d \in Dequeuers :
       (DequeueFind(d) /\ dq'[d].pc = "update") =>
         LET i == dq'[d].sel IN
           \A j \in PendingRows :
              \/ requested[j] < requested[i]
              \/ requested[j] = requested[i] /\ rows[j].createdAt >= rows[i].createdAt]_vars

\* C3: two dequeue() calls in flight together never hand out the same item:
\* they are never both past their write with the same row selected.
C3_NoItemHandedOutTwice ==
  \A d1, d2 \in Dequeuers :
     (d1 # d2 /\ dq[d1].pc = "add" /\ dq[d2].pc = "add") => dq[d1].sel # dq[d2].sel

\* C4: an item that has been Completed or Cancelled is never handed out by a
\* later dequeue(): no dequeue() call selects such a row.
C4_FinishedNeverDequeued ==
  [][\A d \in Dequeuers :
       (DequeueFind(d) /\ dq'[d].pc = "update") => dq'[d].sel \notin finished]_vars

\* C5: no step moves an item from Completed, Failed or Cancelled back to
\* Pending or Processing, nor from Processing back to Pending.
C5_StatusMonotonic ==
  [][\A i \in RowIds :
       (rows[i] # NoRow /\ rows'[i] # NoRow) =>
         /\ rows[i].status \in TerminalQueueStatus =>
              rows'[i].status \notin {"PENDING", "PROCESSING"}
         /\ rows[i].status = "PROCESSING" => rows'[i].status # "PENDING"]_vars

\* C6: once a subject's queue item is Cancelled, no step of a pipeline run for
\* that subject changes the item or advances the run's progress.
C6_CancelledRunStopsAdvancing ==
  [][\A r \in Runs :
       PipelineStep(r) =>
         \A i \in RowIds :
            (rows[i] # NoRow /\ rows[i].status = "CANCELLED" /\ rows[i].url = pl[r].url) =>
              /\ rows'[i] = rows[i]
              /\ pl'[r].progress = pl[r].progress]_vars

\* routeAnalysis: how often the fallback strategy was tried, and whether a
\* strategy before it was tried and threw.
RouterFallbackTries == Cardinality({k \in 1..Len(rt.tried) : rt.tried[k] = "fallback"})
RouterPrimaryFailed == \E k \in 1..Len(rt.tried) : rt.tried[k] # "fallback" /\ k < Len(rt.tried)

C9_AbsentFromTtlOn ==
  lastGet.set # NoEntry =>
    lastGet.result = IF lastGet.at - lastGet.set.timestamp < lastGet.set.ttl
                       THEN lastGet.set.data ELSE Null

\* C9, as the code has it: such a get() returns value when t <= ttl and absent when
\* t > ttl.
C9_AbsentAfterTtl ==
  lastGet.set # NoEntry =>
    lastGet.result = IF lastGet.at - lastGet.set.timestamp <= lastGet.set.ttl
                       THEN lastGet.set.data ELSE Null

\* A get() at exactly t = ttl after the set() that returned the stored value.
C9_Witness ==
  /\ lastGet.set # NoEntry
  /\ lastGet.set.ttl > 0
  /\ lastGet.at - lastGet.set.timestamp = lastGet.set.ttl
  /\ lastGet.result = lastGet.set.data

\* C7: while every error handled for a subject since its counter was reset
\* matches the class with maxRetries = 3, handleError returns true for the
\* first three of them and leaves the status alone, and for every later one
\* it returns false and the subject is Failed.
C7_ThreeRetriesThenFailed ==
  [][\A u \in Urls :
       ((\E e \in Errors : HandleError(u, e)) /\ classesSeen'[u] = "RATE_LIMIT") =>
         IF handled[u] < 3
           THEN /\ handleResult'[u] = "true"
                /\ progressMap'[u] = progressMap[u]
           ELSE /\ handleResult'[u] = "false"
                /\ progressMap'[u].status = "FAILED"]_vars

\* Five rate-limit errors were handled for a subject: three retries were
\* granted, the last call returned false and the subject is Failed.
C7_Witness ==
  \E u \in Urls :
     /\ handled[u] >= 5
     /\ classesSeen[u] = "RATE_LIMIT"
     /\ retryAttempts[u] = 3
     /\ handleResult[u] = "false"
     /\ progressMap[u] # NoProgress
     /\ progressMap[u].status = "FAILED"

\* C10: an updateProgress call on a record that is not terminal before and
\* after it never lowers progress, and progress is 100 only in a terminal
\* status.
C10_ProgressMonotonic ==
  /\ [](\A u \in Urls :
          (progressMap[u] # NoProgress /\ progressMap[u].progress = 100) =>
            progressMap[u].status \in TerminalStatus)
  /\ [][\A u \in Urls :
          ((\E p \in ProgressValues, st \in StatusArgs : UpdateProgress(u, p, st))
            /\ progressMap[u].status \notin TerminalStatus
            /\ progressMap'[u].status \notin TerminalStatus) =>
             progressMap'[u].progress >= progressMap[u].progress]_vars

\* ResourceMetrics: what the four sub-checks say of the metrics a call built.
StorageCheckPasses(metrics) ==
  metrics.storage.total > 0 /\ 10 * metrics.storage.used < 9 * metrics.storage.total
StorageAtNineTenths(metrics) ==
  metrics.storage.total > 0 /\ 10 * metrics.storage.used >= 9 * metrics.storage.total
QueueCheckPasses(metrics) == metrics.active < metrics.maxConcurrent
HealthCheckPasses(metrics) == metrics.health.cpu < 90 /\ metrics.health.mem < 90
BudgetsAboveBuffer(metrics) ==
  \A t \in TrackedLimits(metrics.limits) :
     metrics.limits[t].remaining > RateLimitBufferOf(metrics.limits[t])
BudgetsAboveTenPercent(metrics) ==
  \A t \in TrackedLimits(metrics.limits) :
     10 * metrics.limits[t].remaining > metrics.limits[t].limit

\* C11, as the specification words it: validateResources returns false
\* whenever the storage percentage is at or above 0.9, and returns true only
\* when all four sub-checks pass.
C11_ReturnsFalseAtStorageThreshold ==
  (rm.op = "validateResources" /\ rm.outcome # "SYSTEM_ERROR") =>
    /\ StorageAtNineTenths(rm.metrics) => rm.outcome = "false"
    /\ rm.outcome = "true" =>
         (StorageCheckPasses(rm.metrics) /\ QueueCheckPasses(rm.metrics)
          /\ BudgetsAboveBuffer(rm.metrics) /\ HealthCheckPasses(rm.metrics))

\* C11, as the code has it: validateResources never returns false; whenever
\* the storage percentage is at or above 0.9 it throws ResourceError
\* RESOURCE_INVALID whatever the other metrics are, and it returns true only
\* when all four sub-checks pass.
C11_RejectsAtStorageThreshold ==
  rm.op = "validateResources" =>
    /\ rm.outcome \in {"true", "RESOURCE_INVALID", "SYSTEM_ERROR"}
    /\ rm.outcome # "SYSTEM_ERROR" =>
         /\ StorageAtNineTenths(rm.metrics) => rm.outcome = "RESOURCE_INVALID"
         /\ rm.outcome = "true" =>
              (StorageCheckPasses(rm.metrics) /\ QueueCheckPasses(rm.metrics)
               /\ BudgetsAboveBuffer(rm.metrics) /\ HealthCheckPasses(rm.metrics))

\* validateResources rejected a request whose storage is at the threshold
\* while the queue, the budgets and the system health all pass.
C11_Witness ==
  /\ rm.op = "validateResources"
  /\ rm.outcome = "RESOURCE_INVALID"
  /\ StorageAtNineTenths(rm.metrics)
  /\ QueueCheckPasses(rm.metrics)
  /\ BudgetsAboveBuffer(rm.metrics)
  /\ HealthCheckPasses(rm.metrics)

\* C12, as the specification words it: available is true exactly when the
\* storage fraction is below 0.9, active < maxConcurrent, every tracked
\* budget has remaining above 10% of its limit, and CPU and memory are both
\* below 0.9.
C12_AvailableIffAboveTenPercent ==
  (rm.op = "checkResources" /\ rm.outcome = "metrics") =>
    (rm.metrics.available <=>
       (StorageCheckPasses(rm.metrics) /\ QueueCheckPasses(rm.metrics)
        /\ BudgetsAboveTenPercent(rm.metrics) /\ HealthCheckPasses(rm.metrics)))

\* C12, as the code has it: the same, with every tracked budget's remaining
\* above the buffer ceil(0.1 * limit) (a remaining equal to the buffer is
\* critical).
C12_AvailableIffAboveBuffer ==
  (rm.op = "checkResources" /\ rm.outcome = "metrics") =>
    (rm.metrics.available <=>
       (StorageCheckPasses(rm.metrics) /\ QueueCheckPasses(rm.metrics)
        /\ BudgetsAboveBuffer(rm.metrics) /\ HealthCheckPasses(rm.metrics)))

\* checkResources reported available with a tracked budget, and reported
\* unavailable only because a budget sits exactly on its buffer.
C12_Witness ==
  /\ rm.op = "checkResources"
  /\ rm.outcome = "metrics"
  /\ ~rm.metrics.available
  /\ StorageCheckPasses(rm.metrics)
  /\ QueueCheckPasses(rm.metrics)
  /\ HealthCheckPasses(rm.metrics)
  /\ \E t \in TrackedLimits(rm.metrics.limits) :
       rm.metrics.limits[t].remaining = RateLimitBufferOf(rm.metrics.limits[t])


\* C13: no request enters staged execution unless an admission check passed
\* for it; a request whose admission check fails is rejected with a resource
\* error, creates no queue item and is not retried.
C13_AdmissionGate ==
  /\ pl[MentionRun].pc # "idle" => mn.admitted
  /\ (mn.pc = "done" /\ mn.checked /\ ~mn.admitted) =>
       (mn.outcome = "ResourceError" /\ ~mn.enqueued)


\* C14: getPreferredMethod evaluates Quick, Deep, Fallback in that order and
\* returns the first whose canHandle is true (Quick below 1 MB, Deep from
\* 1 MB on, Fallback for a size that is no number); it returns a method for
\* every metadata value; routeAnalysis starts with that same method.
C14_FirstCapableMethod ==
  /\ preferred.method # "none" =>
       /\ preferred.method \in AnalysisMethod
       /\ preferred.method = "quick" <=>
            (preferred.size # NaNSize /\ preferred.size < 1000000)
       /\ preferred.method = "deep" <=>
            (preferred.size # NaNSize /\ preferred.size >= 1000000)
       /\ preferred.method = "fallback" <=> preferred.size = NaNSize
  /\ rt.tried # <<>> =>
       rt.tried[1] = (IF rt.size = NaNSize THEN "fallback"
                      ELSE IF rt.size < 1000000 THEN "quick" ELSE "deep")

\* getPreferredMethod was asked about a repository of exactly 1 MB and chose
\* Deep although Fallback could handle it too.
C14_Witness ==
  /\ preferred.method = "deep"
  /\ preferred.size = 1000000
  /\ canHandle("fallback", preferred.size)

\* The tasks a worker is executing.
ExecutingOn(w) == {t \in TaskIds : tasks[t].state = "running" /\ tasks[t].worker = w}

\* The tasks that start in a step, read from the two states of the step.
Starts(t) == tasks[t].state # "running" /\ tasks'[t].state = "running"

\* The worker of a failed task before its timer has fired.
CoolingDown(t) == tasks[t].state \in {"notifying", "cooling"}

\* C15: in the worker pool no task is started twice or by two workers, a
\* worker executes at most one task at a time and no more workers are BUSY
\* than the pool has; while the pool is not shut down a task waits only
\* when no worker is IDLE, and every finished task was run exactly once.
C15_OneWorkerPerTask ==
  /\ \A t \in TaskIds : tasks[t].starts <= 1
  /\ \A w \in Workers : Cardinality(ExecutingOn(w)) <= 1
  /\ Cardinality({t \in TaskIds : tasks[t].state = "running"}) <= maxWorkers
  /\ Cardinality({w \in Workers : workers[w].status = "BUSY"}) <= maxWorkers
  /\ \A w \in Workers : workers[w].status = "BUSY" => ExecutingOn(w) = {workers[w].currentTask}
  /\ \A t \in TaskIds : tasks[t].state \in {"done", "notifying", "cooling", "failed"}
                          => tasks[t].starts = 1
  /\ ~isShuttingDown /\ pending # <<>> => \A w \in Workers : workers[w].status # "IDLE"

C15_Witness ==
  /\ \A w \in Workers : Cardinality(ExecutingOn(w)) = 1
  /\ pending # <<>>
  /\ \E t \in TaskIds : tasks[t].state = "done"

\* C16: the task the pool starts has the highest priority among the waiting
\* tasks and is the earliest submitted of that priority; a task submitted
\* while a worker is IDLE starts in the addTask call itself.
C16_PriorityThenFifo ==
  [][\A t \in TaskIds :
       /\ Starts(t) =>
            \A u \in TaskIds : tasks'[u].state = "waiting" =>
              \/ tasks'[u].priority < tasks'[t].priority
              \/ tasks'[u].priority = tasks'[t].priority /\ t < u
       /\ tasks[t].state = "none" /\ tasks'[t].state # "none"
            /\ (\E w \in Workers : workers[w].status = "IDLE")
            => tasks'[t].state = "running"]_vars

C16_Witness ==
  \E t, v \in TaskIds :
    /\ t < v
    /\ tasks[t].state = "waiting"
    /\ tasks[v].priority > tasks[t].priority
    /\ tasks[v].starts = 1
    /\ \A w \in Workers : workers[w].status = "BUSY"

\* C17: a failing task marks its worker ERROR and is notified as
\* WORKER_ERROR, its future is rejected and it never runs again; its worker
\* gets no task before the timer fires, and when the timer fires the worker
\* is IDLE again and the head of the waiting list starts.
C17_FailureCooldown ==
  [][\A t \in TaskIds :
       /\ tasks[t].state = "running" /\ tasks'[t].state = "notifying" =>
            /\ workers'[tasks[t].worker].status = "ERROR"
            /\ [type |-> "WORKER_ERROR", taskId |-> t] \in notifications'
       /\ tasks'[t].state \in {"cooling", "failed"} =>
            tasks'[t].future = "rejected" /\ tasks'[t].starts = 1
       /\ tasks[t].state \in {"notifying", "cooling", "failed"} =>
            tasks'[t].state # "running" /\ tasks'[t].starts = tasks[t].starts
       /\ CoolingDown(t) =>
            /\ workers[tasks[t].worker].status # "BUSY"
            /\ workers[tasks[t].worker].currentTask = None
       /\ CoolingDown(t) /\ tasks'[t].state \in {"notifying", "cooling"} =>
            \A u \in TaskIds : Starts(u) => tasks'[u].worker # tasks[t].worker
       /\ tasks[t].state = "cooling" /\ tasks'[t].state = "failed" =>
            /\ workers'[tasks[t].worker].status \in {"IDLE", "BUSY"}
            /\ pending # <<>> => tasks'[Head(pending)].state = "running"]_vars

C17_Witness ==
  \E t, u \in TaskIds :
    /\ tasks[t].state = "failed" /\ tasks[t].future = "rejected"
    /\ tasks[u].state = "running" /\ tasks[u].worker = tasks[t].worker
    /\ [type |-> "WORKER_ERROR", taskId |-> t] \in notifications
    /\ \A w \in Workers : workers[w].status = "BUSY"

\* C18: the shutdown call marks every worker SHUTDOWN, empties the waiting
\* list and leaves the executing tasks alone; from then on addTask throws,
\* no task is admitted or started and the list stays empty, while the
\* executing tasks still finish.
C18_AfterShutdown ==
  [][/\ ~isShuttingDown /\ isShuttingDown' =>
          /\ \A w \in Workers : workers'[w].status = "SHUTDOWN"
          /\ pending' = <<>>
          /\ \A t \in TaskIds : tasks[t].state = "running" => tasks'[t] = tasks[t]
     /\ isShuttingDown =>
          /\ isShuttingDown'
          /\ pending' = <<>>
          /\ nextTask' = nextTask
          /\ lastAdd' \in {lastAdd, "threw"}
          /\ \A t \in TaskIds : ~Starts(t) /\ tasks'[t].starts = tasks[t].starts]_vars

C18_Witness ==
  /\ isShuttingDown
  /\ lastAdd = "threw"
  /\ \E t \in TaskIds : tasks[t].state = "dropped"
  /\ \E t \in TaskIds : tasks[t].future = "resolved"
                          /\ workers[tasks[t].worker].status = "IDLE"

\* CacheService.get of the key cacheProgress writes would return a value.
CachedProgressReadable(u) ==
  cache[ProgressKey(u)] # NoEntry /\ ~IsExpired(cache[ProgressKey(u)])

\* C19: a handleError call that refuses the retry leaves the subject FAILED,
\* has pushed an ANALYSIS_ERROR notification for it, and the progress the
\* cache held for the subject can no longer be read.
C19_FailureDropsCachedProgress ==
  [][\A u \in Urls :
       ((\E e \in Errors : HandleError(u, e)) /\ handleResult'[u] = "false") =>
         /\ progressMap'[u].status = "FAILED"
         /\ [type |-> "ANALYSIS_ERROR", repositoryUrl |-> u] \in notifications'
         /\ ~CachedProgressReadable(u)']_vars

\* C20: a FAILED record carries an error, and no updateProgress,
\* completeAnalysis or handleError call changes the status or the progress
\* of a record that is COMPLETED, FAILED or CANCELLED.
C20_TerminalIsAbsorbing ==
  /\ [](\A u \in Urls :
          (progressMap[u] # NoProgress /\ progressMap[u].status = "FAILED") =>
            progressMap[u].error)
  /\ [][\A u \in Urls :
          (/\ progressMap[u] # NoProgress
           /\ progressMap[u].status \in TerminalStatus
           /\ \/ \E p \in ProgressValues, st \in StatusArgs : UpdateProgress(u, p, st)
              \/ CompleteAnalysis(u)
              \/ \E e \in Errors : HandleError(u, e)) =>
             /\ progressMap'[u].status = progressMap[u].status
             /\ progressMap'[u].progress = progressMap[u].progress]_vars

\* handleError(url, error) would grant a retry: the subject has a progress
\* record, a retry class matches and its maxRetries is not used up.
GrantsRetry(url, error) ==
  /\ progressMap[url] # NoProgress
  /\ findRetryStrategy(error) # NoStrategy
  /\ ~RetriesExhausted(retryAttempts[url], findRetryStrategy(error))

\* C21: when a stage of a pipeline run throws an error for which the
\* StatusManager grants a retry, the run is executing again afterwards with
\* the method it had, and its queue item is not FAILED.
C21_RetryableFailureReenters ==
  [][\A e \in Errors :
       (MentionPipelineThrows /\ GrantsRetry(mn.url, e)) =>
         /\ pl'[MentionRun].pc = "exec"
         /\ pl'[MentionRun].method = pl[MentionRun].method
         /\ \A i \in RowIds : rows'[i] # NoRow /\ rows'[i].url = mn.url
                                => rows'[i].status # "FAILED"]_vars

\* C22: when a pipeline run ends in failure, ANALYSIS_ERROR was notified for
\* its subject, the subject's queue items are FAILED and hold no processing
\* slot, and the cache holds no entry of the subject.
C22_FailureFinalizes ==
  [][\A r \in Runs :
       (PipelineFail(r) \/ (r = MentionRun /\ MentionPipelineThrows)) =>
         /\ [type |-> "ANALYSIS_ERROR", repositoryUrl |-> pl[r].url] \in notifications'
         /\ \A i \in RowIds : rows'[i] # NoRow /\ rows'[i].url = pl[r].url
                                => rows'[i].status = "FAILED"
         /\ pl[r].url \notin processingItems'
         /\ \A k \in CacheKeys : k[2] = pl[r].url => cache'[k] = NoEntry]_vars

\* CacheService.getAnalysisResult(u) would return a value.
AnalysisResultReadable(u) ==
  cache[AnalysisKey(u)] # NoEntry /\ ~IsExpired(cache[AnalysisKey(u)])

C24_PositionOneIsNext ==
  [][\A d \in Dequeuers :
       /\ (/\ DequeueCheck(d)
           /\ maxConcurrent = 1
           /\ Cardinality(ProcessingRows) = 1
           /\ Cardinality(PendingRows) = 1) =>
            /\ \A i \in PendingRows : GetPosition(rows[i].url) = {1}
            /\ dq'[d].pc = "idle"
       /\ (DequeueFind(d) /\ dq'[d].pc = "update") => 1 \in GetPosition(dq'[d].url)]_vars

\* C25: a dequeue call made while as many items are Processing as
\* maxConcurrent allows returns none and changes no item's status.
C25_NoDequeueAtCapacity ==
  [][\A d \in Dequeuers :
       (DequeueCheck(d) /\ Cardinality(ProcessingRows) = maxConcurrent) =>
         /\ dq'[d].pc = "idle"
         /\ rows' = rows]_vars

\* C26: the retry counter of a subject goes down only in a cleanup of the
\* subject, which leaves it 0; initializeProgress, updateProgress,
\* completeAnalysis and a handleError call that refuses the retry leave it
\* as it was.
C26_CounterResetOnlyByCleanup ==
  [][\A u \in Urls :
       /\ retryAttempts'[u] < retryAttempts[u] => Cleanup(u)
       /\ Cleanup(u) => retryAttempts'[u] = 0
       /\ (\/ InitializeProgress(u)
           \/ \E p \in ProgressValues, st \in StatusArgs : UpdateProgress(u, p, st)
           \/ CompleteAnalysis(u)
           \/ (\E e \in Errors : HandleError(u, e)) /\ handleResult'[u] = "false")
            => retryAttempts'[u] = retryAttempts[u]]_vars

\* A retry had been granted to a subject whose record is now cleaned up and
\* whose counter is 0 again.
C26_Witness ==
  \E u \in Urls :
    /\ handleResult[u] = "true"
    /\ progressMap[u] = NoProgress
    /\ retryAttempts[u] = 0
    /\ handled[u] = 0

\* C27: for a tweet id, every registered mention callback is invoked at
\* most once.
C27_MentionProcessedOnce ==
  \A tweet \in Tweets : \A k \in 1..MaxCallbacks : tw.invoked[tweet][k] <= 1

\* The retry classes an error matches, and the bound of the first of them in
\* registration order, written out class by class.
ClassBound(error) ==
  IF "rate limit" \in error THEN 3
  ELSE IF "network" \in error THEN 5
  ELSE IF "storage" \in error THEN 2
  ELSE 0

\* C28: a handleError call on a tracked subject grants the retry exactly
\* when the counter is below the maxRetries of the first class, in the order
\* RATE_LIMIT, NETWORK, STORAGE, that the error matches; an error matching
\* no class is refused and the subject is FAILED.
C28_FirstMatchingClassGoverns ==
  [][\A u \in Urls : \A e \in Errors :
       HandleError(u, e) =>
         /\ handleResult'[u] = IF retryAttempts[u] < ClassBound(e) THEN "true" ELSE "false"
         /\ e \cap Keywords = {} => progressMap'[u].status = "FAILED"]_vars

\* An error matching NETWORK and STORAGE was granted a third retry, and an
\* error matching RATE_LIMIT and NETWORK was refused after three.
C28_Witness ==
  \E u \in Urls :
    \/ /\ lastError[u] = {"network", "storage"}
       /\ retryAttempts[u] = 3
       /\ handleResult[u] = "true"
    \/ /\ lastError[u] = {"rate limit", "network"}
       /\ retryAttempts[u] = 3
       /\ handleResult[u] = "false"
       /\ classesSeen[u] = "RATE_LIMIT"

FailingChecks(metrics) ==
  (IF StorageBelowThreshold(metrics.storage) THEN {} ELSE {"storage"})
  \cup (IF metrics.active < metrics.maxConcurrent THEN {} ELSE {"queue"})
  \cup (IF \A t \in TrackedLimits(metrics.limits) : ~IsRateLimitCritical(metrics.limits[t])
          THEN {} ELSE {"rateLimits"})
  \cup (IF metrics.isHealthy THEN {} ELSE {"systemHealth"})

\* C30: when validateResources rejects with RESOURCE_INVALID, its reasons
\* name every failing sub-check, one reason for each, so the list is never
\* empty, also when only a rate budget is critical.
C30_ReasonsNameEveryFailure ==
  (rm.op = "validateResources" /\ rm.outcome = "RESOURCE_INVALID") =>
    /\ rm.reasons # {}
    /\ Cardinality(rm.reasons) = Cardinality(FailingChecks(rm.metrics))

C32_StoreFailureChangesNothing ==
  [][/\ \A d \in Dequeuers :
          DequeueStoreFails(d) =>
            /\ processingItems' = processingItems /\ rows' = rows
            /\ qf'.returned = "none" /\ qf'.thrown = "Failed to dequeue analysis request"
     /\ \A u \in Urls :
          (\E s \in FaultStatuses : UpdateStatusStoreFails(u, s)) =>
            /\ processingItems' = processingItems /\ rows' = rows
            /\ qf'.thrown = "Failed to update queue item status"
     /\ \A i \in RowIds :
          CancelStoreFails(i) =>
            /\ processingItems' = processingItems /\ rows' = rows
            /\ qf'.thrown = "Failed to cancel queue item"]_vars

\* An updateStatus or a cancel failed while a subject with a Processing row
\* held a slot and another row was Pending.
C32_Witness ==
  /\ qf.op \in {"updateStatus", "cancel"}
  /\ processingItems # {}
  /\ \E i \in ProcessingRows : rows[i].url \in processingItems
  /\ PendingRows # {}

\* C33: for a subject whose record is FAILED, every later handleError call
\* returns false, whatever the class of its error, until the record is
\* cleaned up.
C33_FailedStaysNotRetryable ==
  [][\A u \in Urls :
       (/\ progressMap[u] # NoProgress
        /\ progressMap[u].status = "FAILED"
        /\ \E e \in Errors : HandleError(u, e)) =>
          handleResult'[u] = "false"]_vars

\* C34: between the Queue's calls, the in-memory set of processing subjects
\* is the set of the subjects that have a Processing row in the store.
C34_ProcessingSetMatchesStore ==
  (\A d \in Dequeuers : dq[d].pc = "idle") =>
    processingItems = {rows[i].url : i \in ProcessingRows}

\* C35: when a subject has a Processing row and a Pending row, marking the
\* subject Completed or Failed leaves the Pending row Pending.
C35_UpdateTouchesProcessingItemOnly ==
  [][\A u \in Urls :
       (\E s \in {"COMPLETED", "FAILED"} : UpdateStatus(u, s)) =>
         \A i \in PendingRows :
           (rows[i].url = u /\ \E j \in ProcessingRows : rows[j].url = u) =>
             rows'[i].status = "PENDING"]_vars

\* C36: the failure handling of executePipeline (ANALYSIS_ERROR, the item
\* marked Failed, the subject's cache entries invalidated) never runs for a
\* run that has already marked its queue item Completed.
C36_NoFailureAfterSuccess ==
  [][\A r \in Runs :
       PipelineFail(r) => ProgressStatus(pl[r].progress) # "COMPLETED"]_vars

C38_EveryFutureSettles ==
  \A t \in TaskIds :
    (tasks[t].future = "pending") ~> (tasks[t].future \in {"resolved", "rejected"})

\* C39: once shutdown has been called, every worker's status is SHUTDOWN
\* and stays so.
C39_ShutdownIsFinal ==
  isShuttingDown => \A w \in Workers : workers[w].status = "SHUTDOWN"

\* C40: a tweet() call is over, with the tweet id returned or an error
\* thrown, once maxRetries of its send attempts have failed, whatever the
\* failures were.
C40_TweetEndsWithinMaxRetries ==
  tc.pc = "loop" => Len(tc.failures) < TwitterMaxRetries

====
